---- MODULE Spec2Model ----
(***************************************************************************)
(* Section-scoped EIP-712 credential issuance and verification             *)
(* (component/rwa-vc/vc: crypto.py, issuer.py, verifier.py).               *)
(*                                                                         *)
(* Python objects live in a heap: a function from addresses to dict        *)
(* objects.  A dict object is the sequence of its (key, value) items in    *)
(* insertion order.  A value is a record [k, s, n]: k is the Python type   *)
(* ("none", "str", "int", "ref" for a dict reference, "sig" for a str      *)
(* that is a well-formed 65-byte signature, "key" for a str that is the    *)
(* hex of a private key), s the text, n the number, the address or the     *)
(* key.                                                                    *)
(***************************************************************************)
EXTENDS Integers, Sequences, FiniteSets, TLC

VARIABLES heap, vc, keys_cfg, verifying_contract, expected_addresses,
          doc, stage, arg, arg_before, outcome, proofs_meta, first_meta,
          results, results_before, tampered,
          threads, call, status_lists, status_call

vars == <<heap, vc, keys_cfg, verifying_contract, expected_addresses,
          doc, stage, arg, arg_before, outcome, proofs_meta, first_meta,
          results, results_before, tampered,
          threads, call, status_lists, status_call>>

\* the state of one credential's issuance and verification, the heap apart
credential_vars == <<vc, keys_cfg, verifying_contract, expected_addresses,
                     doc, stage, arg, arg_before, outcome, proofs_meta, first_meta,
                     results, results_before, tampered>>

\* the state of the concurrent calls, of the calls of the pure functions and
\* of the status lists
other_vars == <<threads, call, status_lists, status_call>>

-----------------------------------------------------------------------------
(* Bounds of the model *)

\* the private keys are 1..MaxKey
MaxKey == 4
\* the values content members take are 1..MaxContent
MaxContent == 2
\* the entries of a status list are 0..ListSize-1
ListSize == 2
\* a status list takes at most MaxUpdates updates
MaxUpdates == 2
\* a slash path has at most MaxPath characters
MaxPath == 4
\* a Merkle tree has at most MaxTx transactions
MaxTx == 5

-----------------------------------------------------------------------------
(* Python values *)

\* x = e; F(x): e is evaluated once and F reads its value
Bind(e, F(_)) == CHOOSE y \in {F(x) : x \in {e}} : TRUE

None == [k |-> "none", s |-> "", n |-> 0]
PyStr(x) == [k |-> "str", s |-> x, n |-> 0]
PyInt(x) == [k |-> "int", s |-> "", n |-> x]
PyRef(a) == [k |-> "ref", s |-> "", n |-> a]
SigValue(key, encoded) == [k |-> "sig", s |-> encoded, n |-> key]
PrivKey(key) == [k |-> "key", s |-> "", n |-> key]

IsDict(v) == v.k = "ref"

\* dict objects: sequences of items
Item(key, val) == [key |-> key, val |-> val]
Has(d, key) == \E i \in DOMAIN d : d[i].key = key
DictGet(d, key, default) ==
    IF Has(d, key) THEN d[CHOOSE i \in DOMAIN d : d[i].key = key].val ELSE default
DictSet(d, key, val) ==
    IF Has(d, key)
    THEN [i \in DOMAIN d |-> IF d[i].key = key THEN Item(key, val) ELSE d[i]]
    ELSE Append(d, Item(key, val))
DictPop(d, key) == SelectSeq(d, LAMBDA e : e.key # key)
Keys(d) == {d[i].key : i \in DOMAIN d}

\* Python truthiness, as used by `x or y` and `not x`
Falsy(h, v) ==
    \/ v.k = "none"
    \/ v.k = "str" /\ v.s = ""
    \/ v.k = "int" /\ v.n = 0
    \/ v.k = "ref" /\ h[v.n] = <<>>

\* str(x)
StrOf(v) ==
    CASE v.k = "str" -> v.s
      [] v.k = "int" -> ToString(v.n)
      [] v.k = "sig" -> "0xsig" \o ToString(v.n) \o ":" \o v.s
      [] v.k = "key" -> "0xkey" \o ToString(v.n)
      [] v.k = "none" -> "None"
      [] OTHER -> "{...}"

\* int(x): raises for what is no number
IntOf(v) ==
    CASE v.k = "int" -> [raised |-> FALSE, n |-> v.n]
      [] v.k = "str" /\ v.s = "1" -> [raised |-> FALSE, n |-> 1]
      [] v.k = "str" /\ v.s = "5" -> [raised |-> FALSE, n |-> 5]
      [] OTHER -> [raised |-> TRUE, n |-> 0]

\* mapping.get(key, default) on a configuration mapping
CfgGet(f, key, default) == IF key \in DOMAIN f THEN f[key] ELSE default

\* y or x: the operands the other way round
PyOr_second_first(h, x, y) == IF Falsy(h, y) THEN x ELSE y

\* x or y
PyOr(h, x, y) == IF Falsy(h, x) THEN y ELSE x

-----------------------------------------------------------------------------
(* The heap: reachability and copy.deepcopy *)

Refs(d) == {d[i].val.n : i \in {j \in DOMAIN d : d[j].val.k = "ref"}}

RECURSIVE ReachFrom(_, _, _)
ReachFrom(h, frontier, seen) ==
    IF frontier = {} THEN seen
    ELSE Bind(seen \cup frontier, LAMBDA done :
         Bind(UNION {Refs(h[a]) : a \in frontier} \ done, LAMBDA next :
         ReachFrom(h, next, done)))

Reach(h, v) == IF IsDict(v) THEN ReachFrom(h, {v.n}, {}) ELSE {}

MaxAddr(h) == CHOOSE m \in DOMAIN h : \A a \in DOMAIN h : a <= m

Relocate(d, off) ==
    [i \in DOMAIN d |->
        IF d[i].val.k = "ref" THEN Item(d[i].key, PyRef(d[i].val.n + off)) ELSE d[i]]

\* copy.deepcopy(v): every object reachable from v is copied to a fresh
\* address; [heap, val]
deepcopy(h, v) ==
    IF ~IsDict(v) THEN [heap |-> h, val |-> v]
    ELSE Bind(MaxAddr(h), LAMBDA off :
         Bind(Reach(h, v), LAMBDA old :
         [heap |-> [a \in DOMAIN h \cup {o + off : o \in old} |->
                       IF a \in DOMAIN h THEN h[a] ELSE Relocate(h[a - off], off)],
          val |-> PyRef(v.n + off)]))

\* the objects of a document, by address
Snapshot(h, v) == Bind(Reach(h, v), LAMBDA live : [a \in live |-> h[a]])

\* what stays allocated when a call returns: the objects its roots reach
Collect(h, roots) ==
    Bind(UNION {Reach(h, r) : r \in roots}, LAMBDA live : [a \in live |-> h[a]])

-----------------------------------------------------------------------------
(* crypto.py *)

\* the keys of the model in code-point order, the order sort_keys=True emits
KeyOrder ==
    << "a", "b", "c", "chainId", "compliance", "credentialSubject", "custody",
       "domain", "identity", "issuer", "name", "proof", "proofValue", "sProof",
       "sectionHash", "signer", "type", "verifyingContract", "version", "x" >>

\* the items of a dict in the order they were inserted: json.dumps without
\* sort_keys
InsertionItems(d) == d

\* the items of a dict in the order json.dumps(sort_keys=True) writes them
SortedItems(d) ==
    Bind(SelectSeq(KeyOrder, LAMBDA key : Has(d, key)), LAMBDA ks :
    [i \in DOMAIN ks |-> Item(ks[i], DictGet(d, ks[i], None))])

RECURSIVE to_canonical_json(_, _)
RECURSIVE JoinItems(_, _, _)

\* "k1":v1,"k2":v2,... for the items from position i on
JoinItems(h, items, i) ==
    IF i > Len(items) THEN ""
    ELSE "\"" \o items[i].key \o "\":" \o to_canonical_json(h, items[i].val)
         \o (IF i < Len(items) THEN "," ELSE "")
         \o JoinItems(h, items, i + 1)

\* json.dumps(data, sort_keys=True, separators=(",", ":"), ensure_ascii=False)
to_canonical_json(h, v) ==
    CASE v.k = "none" -> "null"
      [] v.k = "int" -> ToString(v.n)
      [] v.k = "ref" -> Bind(SortedItems(h[v.n]), LAMBDA items :
                             "{" \o JoinItems(h, items, 1) \o "}")
      [] OTHER -> "\"" \o StrOf(v) \o "\""

\* keccak-256 is collision free on the model's inputs: the digest names its preimage
keccak(bytes) == "keccak256<" \o bytes \o ">"

\* to_hex(keccak(canonical)): the 0x-prefixed digest, a str
keccak256_json(h, v) == "0x" \o keccak(to_canonical_json(h, v))

ZeroAddress == "0x0000000000000000000000000000000000000000"

\* Eip712Domain(...).as_dict()
Eip712Domain(name, version, chainId, verifyingContract) ==
    [name |-> name, version |-> version, chainId |-> chainId,
     verifyingContract |-> verifyingContract]

\* build_section_typed_data leaving the scheme's default domain in the message
build_section_typed_data_default_domain(domain, path, section_hash_hex) ==
    [primaryType |-> "Section",
     domain |-> Eip712Domain("RWA-VC", "1", 1, ZeroAddress),
     message |-> [path |-> path, sectionHash |-> section_hash_hex]]

build_section_typed_data(domain, path, section_hash_hex) ==
    [primaryType |-> "Section", domain |-> domain,
     message |-> [path |-> path, sectionHash |-> section_hash_hex]]

build_document_typed_data(domain, document_hash_hex) ==
    [primaryType |-> "Document", domain |-> domain,
     message |-> [documentHash |-> document_hash_hex]]

\* encode_typed_data(full_message=typed_data): the EIP-712 signing input, which
\* binds the primary type, the four domain fields and the message fields
encode_typed_data(typed) ==
    typed.primaryType \o "(" \o typed.domain.name \o "," \o typed.domain.version \o ","
    \o ToString(typed.domain.chainId) \o "," \o typed.domain.verifyingContract \o ")"
    \o (IF typed.primaryType = "Section"
        THEN typed.message.path \o "," \o typed.message.sectionHash
        ELSE typed.message.documentHash)

PrivateKeys == 1..MaxKey

\* the checksummed address of a private key (mixed case, as Account.address)
private_key_to_address(key) == "0xAdDr" \o ToString(key)

\* the address ecrecover yields for a signature made over another message
\* or by no known key: the address of nobody
StrangerAddress == "0xStRaNgEr"

\* str.lower() on the addresses of the model
Lower(s) ==
    IF \E key \in PrivateKeys : s = private_key_to_address(key)
    THEN "0xaddr" \o ToString(CHOOSE key \in PrivateKeys : s = private_key_to_address(key))
    ELSE IF s = StrangerAddress THEN "0xstranger" ELSE s

\* sign_typed_data signing nothing when there is no key, instead of raising
sign_typed_data_unchecked(private_key, typed) ==
    IF private_key.k = "key" /\ private_key.n \in PrivateKeys
    THEN [raised |-> FALSE,
          signature |-> SigValue(private_key.n, encode_typed_data(typed)),
          signer |-> private_key_to_address(private_key.n)]
    ELSE [raised |-> FALSE, signature |-> PyStr(""), signer |-> ""]

\* sign_typed_data(private_key_hex, typed_data): Account.from_key raises for a
\* key that is None or not a private key; [raised, signature, signer]
sign_typed_data(private_key, typed) ==
    IF private_key.k = "key" /\ private_key.n \in PrivateKeys
    THEN [raised |-> FALSE,
          signature |-> SigValue(private_key.n, encode_typed_data(typed)),
          signer |-> private_key_to_address(private_key.n)]
    ELSE [raised |-> TRUE, signature |-> None, signer |-> ""]

\* recover_typed_data_signer(typed_data, signature_hex): Account.recover_message
\* raises unless the signature is a well-formed 65-byte signature;
\* [raised, recovered]
recover_typed_data_signer(typed, signature) ==
    IF signature.k # "sig" THEN [raised |-> TRUE, recovered |-> ""]
    ELSE IF signature.s = encode_typed_data(typed) /\ signature.n \in PrivateKeys
         THEN [raised |-> FALSE, recovered |-> private_key_to_address(signature.n)]
         ELSE [raised |-> FALSE, recovered |-> StrangerAddress]

-----------------------------------------------------------------------------
(* issuer.py *)

SECTION_PATHS ==
    << "/credentialSubject/identity",
       "/credentialSubject/compliance",
       "/credentialSubject/custody" >>

\* [p for p in path.split("/") if p], on the paths of the model
PathParts(path) ==
    CASE path = SECTION_PATHS[1] -> << "credentialSubject", "identity" >>
      [] path = SECTION_PATHS[2] -> << "credentialSubject", "compliance" >>
      [] path = SECTION_PATHS[3] -> << "credentialSubject", "custody" >>
      [] OTHER -> << >>

RECURSIVE Walk(_, _, _, _)
Walk(h, cur, parts, i) ==
    IF i > Len(parts) THEN cur
    ELSE IF IsDict(cur) /\ Has(h[cur.n], parts[i])
         THEN Bind(DictGet(h[cur.n], parts[i], None), LAMBDA next :
                   Walk(h, next, parts, i + 1))
         ELSE None

get_by_path(h, d, path) == Walk(h, d, PathParts(path), 1)

EIP712_TYPE == "Eip712Signature2023"

\* if key in proof: proof[key] = val
SetIfPresent(d, key, val) == IF Has(d, key) THEN DictSet(d, key, val) ELSE d

\* _update_section_proof writing its three fields whether or not the template
\* has them
update_section_proof_adding(h, section, section_hash, signature) ==
    Bind(DictGet(h[section.n], "sProof", None), LAMBDA proof :
    IF IsDict(proof)
    THEN Bind(DictSet(h[proof.n], "type", PyStr(EIP712_TYPE)), LAMBDA p1 :
         Bind(DictSet(p1, "sectionHash", PyStr(section_hash)), LAMBDA p2 :
         [h EXCEPT ![proof.n] = DictSet(p2, "proofValue", signature)]))
    ELSE h)

\* _update_section_proof(section, section_hash, signature): the heap after it
update_section_proof(h, section, section_hash, signature) ==
    Bind(DictGet(h[section.n], "sProof", None), LAMBDA proof :
    IF IsDict(proof)
    THEN Bind(SetIfPresent(h[proof.n], "type", PyStr(EIP712_TYPE)), LAMBDA p1 :
         Bind(SetIfPresent(p1, "sectionHash", PyStr(section_hash)), LAMBDA p2 :
         [h EXCEPT ![proof.n] = SetIfPresent(p2, "proofValue", signature)]))
    ELSE h)

\* _update_top_proof(doc, signature): the heap after it
update_top_proof(h, d, signature) ==
    Bind(DictGet(h[d.n], "proof", None), LAMBDA proof :
    IF IsDict(proof)
    THEN Bind(SetIfPresent(h[proof.n], "type", PyStr(EIP712_TYPE)), LAMBDA p1 :
         [h EXCEPT ![proof.n] = SetIfPresent(p1, "proofValue", signature)])
    ELSE h)

\* one turn of the loop over SECTION_PATHS: pop the section's sProof
StripSection(h, d, path) ==
    Bind(get_by_path(h, d, path), LAMBDA section :
    IF IsDict(section) /\ Has(h[section.n], "sProof")
    THEN [h EXCEPT ![section.n] = DictPop(@, "sProof")]
    ELSE h)

StripTop(h, d) ==
    IF IsDict(d) /\ Has(h[d.n], "proof")
    THEN [h EXCEPT ![d.n] = DictPop(@, "proof")]
    ELSE h

\* the pops of _strip_existing_eip712 / _strip_eip712 on the document d
StripIn(h, d) ==
    Bind(StripSection(h, d, SECTION_PATHS[1]), LAMBDA h1 :
    Bind(StripSection(h1, d, SECTION_PATHS[2]), LAMBDA h2 :
    Bind(StripSection(h2, d, SECTION_PATHS[3]), LAMBDA h3 :
    StripTop(h3, d))))

\* _strip_existing_eip712 removing the root proof only
strip_existing_top_only(h, v) ==
    Bind(deepcopy(h, v), LAMBDA c :
    [heap |-> StripTop(c.heap, c.val), val |-> c.val])

\* _strip_existing_eip712(vc): [heap, val], val the stripped copy
strip_existing_eip712(h, v) ==
    Bind(deepcopy(h, v), LAMBDA c :
    [heap |-> StripIn(c.heap, c.val), val |-> c.val])

\* keccak256_json(_get_by_path(clean, path) or {})
HashOfSection(h, section_clean) ==
    IF Falsy(h, section_clean) THEN "0x" \o keccak("{}")
    ELSE keccak256_json(h, section_clean)

\* a turn of issue's loop that does not skip a section that is no object
IssueSection_without_skip(st, issued, clean, domain, path, priv) ==
    IF st.raised THEN st
    ELSE Bind(get_by_path(st.heap, issued, path), LAMBDA section :
         Bind(HashOfSection(st.heap, get_by_path(st.heap, clean, path)),
              LAMBDA section_hash :
         Bind(sign_typed_data(priv, build_section_typed_data(domain, path,
                                                             section_hash)),
              LAMBDA signed :
         IF signed.raised THEN [st EXCEPT !.raised = TRUE]
         ELSE [raised |-> FALSE,
               heap |-> IF IsDict(section)
                        THEN update_section_proof(st.heap, section, section_hash,
                                                  signed.signature)
                        ELSE st.heap,
               proofs_meta |-> Append(st.proofs_meta,
                                      [path |-> path,
                                       sectionHash |-> section_hash])])))

\* one turn of issue's loop over the sections; st = [raised, heap, proofs_meta]
IssueSection(st, issued, clean, domain, path, priv) ==
    IF st.raised THEN st
    ELSE Bind(get_by_path(st.heap, issued, path), LAMBDA section :
         IF ~IsDict(section) THEN st
         ELSE Bind(HashOfSection(st.heap, get_by_path(st.heap, clean, path)),
                   LAMBDA section_hash :
              Bind(sign_typed_data(priv, build_section_typed_data(domain, path,
                                                                  section_hash)),
                   LAMBDA signed :
              IF signed.raised THEN [st EXCEPT !.raised = TRUE]
              ELSE [raised |-> FALSE,
                    heap |-> update_section_proof(st.heap, section, section_hash,
                                                  signed.signature),
                    proofs_meta |-> Append(st.proofs_meta,
                                           [path |-> path,
                                            sectionHash |-> section_hash])])))

Failed(h) == [raised |-> TRUE, heap |-> h, issued |-> None, proofs_meta |-> << >>]

\* the document proof of issue with its record put before the section records
IssueDocument_record_first(st, issued, domain, priv_document) ==
    IF st.raised THEN Failed(st.heap)
    ELSE Bind(strip_existing_eip712(st.heap, issued), LAMBDA c2 :
         Bind(keccak256_json(c2.heap, c2.val), LAMBDA doc_hash :
         Bind(sign_typed_data(priv_document,
                              build_document_typed_data(domain, doc_hash)),
              LAMBDA signed_doc :
         IF signed_doc.raised THEN Failed(c2.heap)
         ELSE [raised |-> FALSE,
               heap |-> update_top_proof(c2.heap, issued, signed_doc.signature),
               issued |-> issued,
               proofs_meta |-> << [path |-> "/", documentHash |-> doc_hash] >>
                               \o st.proofs_meta])))

\* the document proof of issue, after the section loop left st
IssueDocument(st, issued, domain, priv_document) ==
    IF st.raised THEN Failed(st.heap)
    ELSE Bind(strip_existing_eip712(st.heap, issued), LAMBDA c2 :
         Bind(keccak256_json(c2.heap, c2.val), LAMBDA doc_hash :
         Bind(sign_typed_data(priv_document,
                              build_document_typed_data(domain, doc_hash)),
              LAMBDA signed_doc :
         IF signed_doc.raised THEN Failed(c2.heap)
         ELSE [raised |-> FALSE,
               heap |-> update_top_proof(c2.heap, issued, signed_doc.signature),
               issued |-> issued,
               proofs_meta |-> Append(st.proofs_meta,
                                      [path |-> "/", documentHash |-> doc_hash])])))

\* the body of issue from the section loop on; c0 = [heap, val] holds issued
IssueProofs(c0, domain, keys) ==
    Bind(strip_existing_eip712(c0.heap, c0.val), LAMBDA c1 :
    Bind(IssueSection([raised |-> FALSE, heap |-> c1.heap, proofs_meta |-> << >>],
                      c0.val, c1.val, domain, SECTION_PATHS[1],
                      CfgGet(keys, "identity", None)), LAMBDA s1 :
    Bind(IssueSection(s1, c0.val, c1.val, domain, SECTION_PATHS[2],
                      CfgGet(keys, "compliance", None)), LAMBDA s2 :
    Bind(IssueSection(s2, c0.val, c1.val, domain, SECTION_PATHS[3],
                      CfgGet(keys, "custody", None)), LAMBDA s3 :
    IssueDocument(s3, c0.val, domain, CfgGet(keys, "document", None))))))

\* the Eip712Domain issue builds from keys_cfg: [raised, domain]; int() of a
\* chainId that is no number raises
IssueDomain(cfg, contract) ==
    Bind(CfgGet(cfg, "domain", << >>), LAMBDA domain_cfg :
    Bind(IntOf(CfgGet(domain_cfg, "chainId", PyInt(1))), LAMBDA chain :
    [raised |-> chain.raised,
     domain |-> Eip712Domain(StrOf(CfgGet(domain_cfg, "name", PyStr("RWA-VC"))),
                             StrOf(CfgGet(domain_cfg, "version", PyStr("1"))),
                             chain.n, contract)]))

\* issued = vc: issue writing into the caller's document
issued_alias(h, v) == [heap |-> h, val |-> v]

\* issued = deepcopy(vc): [heap, val], val the copy issue writes into
issued_copy(h, v) == deepcopy(h, v)

\* issue(vc, keys_cfg, verifying_contract) on heap h:
\* [raised, heap, issued, proofs_meta]
issue(h, v, cfg, contract) ==
    Bind(issued_copy(h, v), LAMBDA c0 :
    Bind(IssueDomain(cfg, contract), LAMBDA dom :
    IF dom.raised THEN Failed(c0.heap)
    ELSE IssueProofs(c0, dom.domain, CfgGet(cfg, "keys", << >>))))

-----------------------------------------------------------------------------
(* verifier.py *)

\* _strip_eip712 popping the proofs of the document it was given
strip_in_place(h, v) == [heap |-> StripIn(h, v), val |-> v]

\* _strip_eip712(vc): [heap, val], val the stripped copy
strip_eip712(h, v) ==
    Bind(deepcopy(h, v), LAMBDA c :
    [heap |-> StripIn(c.heap, c.val), val |-> c.val])

\* path.endswith("/identity") ..., on the paths of the model
role_for_path(path) ==
    CASE path = SECTION_PATHS[1] -> PyStr("identity")
      [] path = SECTION_PATHS[2] -> PyStr("compliance")
      [] path = SECTION_PATHS[3] -> PyStr("custody")
      [] OTHER -> None

DefaultDomain == Eip712Domain("RWA-VC", "1", 1, ZeroAddress)

\* verify taking the defaults whatever the proof object embeds
ProofDomain_defaults_only(h, proof) ==
    [raised |-> FALSE, domain |-> Eip712Domain("RWA-VC", "1", 1, ZeroAddress)]

\* the Eip712Domain verify builds from proof.get("domain", {defaults}):
\* [raised, domain]; .get on an embedded domain that is no dict raises, and so
\* does int() of a chainId that is no number
ProofDomain(h, proof) ==
    IF ~Has(h[proof.n], "domain") THEN [raised |-> FALSE, domain |-> DefaultDomain]
    ELSE Bind(DictGet(h[proof.n], "domain", None), LAMBDA dv :
         IF ~IsDict(dv) THEN [raised |-> TRUE, domain |-> DefaultDomain]
         ELSE Bind(IntOf(DictGet(h[dv.n], "chainId", PyInt(1))), LAMBDA chain :
              [raised |-> chain.raised,
               domain |-> Eip712Domain(
                              StrOf(DictGet(h[dv.n], "name", PyStr("RWA-VC"))),
                              StrOf(DictGet(h[dv.n], "version", PyStr("1"))),
                              chain.n,
                              StrOf(DictGet(h[dv.n], "verifyingContract",
                                            PyStr(ZeroAddress))))]))

\* (expected_addresses or {}).get(role)
ExpectedFor(expected, role) ==
    IF expected = None THEN None ELSE CfgGet(expected.map, role, None)

\* True if not expected_signer else recovered.lower() == str(expected_signer).lower()
AddrOk(h, recovered, expected_signer) ==
    IF Falsy(h, expected_signer) THEN TRUE
    ELSE Lower(recovered) = Lower(StrOf(expected_signer))

\* the result record with ok computed from hash_ok and addr_ok alone
SectionResult_ok_without_type(h, proof, path, computed_hash, recovered, expected) ==
    Bind(PyStr(computed_hash) = DictGet(h[proof.n], "sectionHash", None),
         LAMBDA hash_ok :
    Bind(role_for_path(path), LAMBDA role :
    Bind(PyOr(h, DictGet(h[proof.n], "signer", None),
              IF role = None THEN None ELSE ExpectedFor(expected, role.s)),
         LAMBDA expected_signer :
    Bind(AddrOk(h, recovered, expected_signer), LAMBDA addr_ok :
    Bind(DictGet(h[proof.n], "type", None) = PyStr(EIP712_TYPE), LAMBDA type_ok :
    [path |-> path,
     ok |-> hash_ok /\ addr_ok,
     hash_ok |-> hash_ok,
     addr_ok |-> addr_ok,
     type_ok |-> type_ok,
     recovered |-> recovered,
     expected_signer |-> expected_signer,
     role |-> role])))))

\* the result record of a section whose sProof is the dict proof
SectionResult(h, proof, path, computed_hash, recovered, expected) ==
    Bind(PyStr(computed_hash) = DictGet(h[proof.n], "sectionHash", None),
         LAMBDA hash_ok :
    Bind(role_for_path(path), LAMBDA role :
    Bind(PyOr(h, DictGet(h[proof.n], "signer", None),
              IF role = None THEN None ELSE ExpectedFor(expected, role.s)),
         LAMBDA expected_signer :
    Bind(AddrOk(h, recovered, expected_signer), LAMBDA addr_ok :
    Bind(DictGet(h[proof.n], "type", None) = PyStr(EIP712_TYPE), LAMBDA type_ok :
    [path |-> path,
     ok |-> hash_ok /\ addr_ok /\ type_ok,
     hash_ok |-> hash_ok,
     addr_ok |-> addr_ok,
     type_ok |-> type_ok,
     recovered |-> recovered,
     expected_signer |-> expected_signer,
     role |-> role])))))

\* one turn of verify's loop over the sections; st = [raised, results]
VerifySection(st, h, v, clean, path, expected) ==
    IF st.raised THEN st
    ELSE Bind(get_by_path(h, v, path), LAMBDA section :
         IF ~IsDict(section) THEN st
         ELSE Bind(DictGet(h[section.n], "sProof", None), LAMBDA proof :
              IF ~IsDict(proof)
              THEN [st EXCEPT !.results =
                       Append(@, [path |-> path, ok |-> FALSE,
                                  reason |-> "missing sProof"])]
              ELSE Bind(HashOfSection(h, get_by_path(h, clean, path)),
                        LAMBDA computed_hash :
                   Bind(ProofDomain(h, proof), LAMBDA dom :
                   IF dom.raised THEN [st EXCEPT !.raised = TRUE]
                   ELSE Bind(recover_typed_data_signer(
                                 build_section_typed_data(dom.domain, path, computed_hash),
                                 DictGet(h[proof.n], "proofValue", PyStr(""))),
                             LAMBDA rec :
                        IF rec.raised THEN [st EXCEPT !.raised = TRUE]
                        ELSE [st EXCEPT !.results =
                                 Append(@, SectionResult(h, proof, path, computed_hash,
                                                         rec.recovered, expected))])))))

\* the document part of verify, after the section loop left results;
\* h holds the document v
VerifyDocument(h, v, expected, section_results) ==
    Bind(DictGet(h[v.n], "proof", None), LAMBDA proof_doc :
    IF ~IsDict(proof_doc)
    THEN [raised |-> FALSE, heap |-> h,
          results |-> Append(section_results,
                             [path |-> "/", ok |-> FALSE, reason |-> "missing proof"])]
    ELSE Bind(strip_eip712(h, v), LAMBDA c2 :
         Bind(keccak256_json(c2.heap, c2.val), LAMBDA computed_doc_hash :
         Bind(ProofDomain(c2.heap, proof_doc), LAMBDA dom :
         IF dom.raised THEN [raised |-> TRUE, heap |-> c2.heap, results |-> << >>]
         ELSE Bind(recover_typed_data_signer(
                       build_document_typed_data(dom.domain, computed_doc_hash),
                       DictGet(c2.heap[proof_doc.n], "proofValue", PyStr(""))),
                   LAMBDA rec :
              IF rec.raised THEN [raised |-> TRUE, heap |-> c2.heap, results |-> << >>]
              ELSE Bind(PyOr(c2.heap, DictGet(c2.heap[proof_doc.n], "signer", None),
                             ExpectedFor(expected, "document")),
                        LAMBDA expected_doc :
                   [raised |-> FALSE, heap |-> c2.heap,
                    results |->
                        Append(section_results,
                               [path |-> "/",
                                ok |-> AddrOk(c2.heap, rec.recovered, expected_doc)
                                       /\ DictGet(c2.heap[proof_doc.n], "type", None)
                                          = PyStr(EIP712_TYPE),
                                recovered |-> rec.recovered,
                                expected |-> expected_doc])]))))))

\* verify(vc, expected_addresses) on heap h: [raised, heap, results]
verify(h, v, expected) ==
    Bind(strip_eip712(h, v), LAMBDA c1 :
    Bind(VerifySection([raised |-> FALSE, results |-> << >>],
                       c1.heap, v, c1.val, SECTION_PATHS[1], expected), LAMBDA s1 :
    Bind(VerifySection(s1, c1.heap, v, c1.val, SECTION_PATHS[2], expected), LAMBDA s2 :
    Bind(VerifySection(s2, c1.heap, v, c1.val, SECTION_PATHS[3], expected), LAMBDA s3 :
    IF s3.raised THEN [raised |-> TRUE, heap |-> c1.heap, results |-> << >>]
    ELSE VerifyDocument(c1.heap, v, expected, s3.results)))))

-----------------------------------------------------------------------------
(* The credentials, configurations and calls of the model *)

\* the sProof templates a section arrives with: the fields issue is to fill
SectionTemplate(t) ==
    CASE t = "full" -> << Item("type", PyStr("x")), Item("sectionHash", PyStr("")),
                          Item("proofValue", PyStr("")) >>
      [] t = "noValue" -> << Item("type", PyStr("x")), Item("sectionHash", PyStr("")) >>
      [] t = "noHash" -> << Item("type", PyStr("x")), Item("proofValue", PyStr("")) >>
      [] t = "noType" -> << Item("sectionHash", PyStr("")), Item("proofValue", PyStr("")) >>

TopTemplate(t) ==
    CASE t = "full" -> << Item("type", PyStr("x")), Item("proofValue", PyStr("")) >>
      [] t = "noValue" -> << Item("type", PyStr("x")) >>

\* what a section may be in an input credential: absent, a value that is no
\* object ("scalar"), or an object without ("none") or with an sProof template
IdentityShapes == {"absent", "none", "full", "noValue", "noHash", "noType"}
ComplianceShapes == {"absent", "scalar", "full"}
CustodyShapes == {"full", "noValue"}
TopShapes == {"none", "full", "noValue"}

SectionName == << "identity", "compliance", "custody" >>
ContentKey == << "a", "c", "b" >>
ContentOf == << 1, 1, 2 >>

\* the input credential on the heap: the root at 1, credentialSubject at 2, the
\* sections at 3..5, their sProof objects at 6..8, the root proof at 9
DocHeap(shapes, top) ==
    LET present == {i \in 1..3 : shapes[i] \notin {"absent", "scalar"}}
        proved == {i \in present : shapes[i] # "none"}
        subject == SelectSeq([i \in 1..3 |->
                                 Item(SectionName[i],
                                      IF shapes[i] = "scalar" THEN PyStr("n/a")
                                      ELSE PyRef(2 + i))],
                             LAMBDA e : \E i \in 1..3 : /\ SectionName[i] = e.key
                                                        /\ shapes[i] # "absent")
        section(i) == << Item(ContentKey[i], PyInt(ContentOf[i])) >>
                      \o (IF i \in proved THEN << Item("sProof", PyRef(5 + i)) >>
                          ELSE << >>)
        root == << Item("issuer", PyStr("did:example:issuer")),
                   Item("credentialSubject", PyRef(2)) >>
                \o (IF top # "none" THEN << Item("proof", PyRef(9)) >> ELSE << >>)
    IN  [a \in {1, 2} \cup {2 + i : i \in present} \cup {5 + i : i \in proved}
               \cup (IF top # "none" THEN {9} ELSE {}) |->
            CASE a = 1 -> root
              [] a = 2 -> subject
              [] a \in 3..5 -> section(a - 2)
              [] a \in 6..8 -> SectionTemplate(shapes[a - 5])
              [] a = 9 -> TopTemplate(top)]

\* keys_cfg["domain"], when the configuration has one
Domains ==
    { [name |-> PyStr("T"), version |-> PyStr("1"), chainId |-> PyInt(1)] }

Contracts == {ZeroAddress, "0x00000000000000000000000000000000000000c1"}

\* keys_cfg["keys"]: a distinct key per role, one key for all roles, or the
\* key of one role missing
KeySets ==
    { [identity |-> PrivKey(1), compliance |-> PrivKey(2), custody |-> PrivKey(3),
       document |-> PrivKey(4)],
      [identity |-> PrivKey(1), compliance |-> PrivKey(1), custody |-> PrivKey(1),
       document |-> PrivKey(1)],
      [identity |-> PrivKey(1), compliance |-> PrivKey(2), document |-> PrivKey(4)],
      [identity |-> PrivKey(1), custody |-> PrivKey(3), document |-> PrivKey(4)],
      [identity |-> PrivKey(1), compliance |-> PrivKey(2), custody |-> PrivKey(3)] }

AllRoles == {"identity", "compliance", "custody", "document"}

\* the configurations: keys, with or without a domain
Configs ==
    {[keys |-> ks] : ks \in KeySets}
    \cup {[domain |-> d, keys |-> ks] : d \in Domains, ks \in KeySets}

\* gen_keys: cfg["addresses"] = {role: private_key_to_address(key)}; verify's
\* callers pass it as expected_addresses
DerivedAddresses(keys) ==
    [map |-> [r \in DOMAIN keys |-> PyStr(private_key_to_address(keys[r].n))]]

NoResults == [raised |-> FALSE, results |-> << >>, none |-> TRUE]

\* no call made
NoCall == [op |-> "none"]

Init ==
    /\ keys_cfg \in Configs
    /\ verifying_contract \in Contracts
    /\ \E s1 \in IdentityShapes, s2 \in ComplianceShapes, s3 \in CustodyShapes,
          top \in TopShapes :
          /\ heap = DocHeap(<< s1, s2, s3 >>, top)
          \* a compliance section that is no object, and a configuration without
          \* the compliance or the document key, come with the default domain
          /\ (s2 = "scalar" \/ DOMAIN keys_cfg.keys \notin {AllRoles, AllRoles \ {"custody"}})
             => ("domain" \notin DOMAIN keys_cfg /\ verifying_contract = ZeroAddress)
    /\ vc = PyRef(1)
    /\ expected_addresses \in {None, DerivedAddresses(keys_cfg.keys)}
    /\ doc = vc
    /\ stage = "input"
    /\ arg = None
    /\ arg_before = << >>
    /\ outcome = "none"
    /\ proofs_meta = << >>
    /\ first_meta = << >>
    /\ results = NoResults
    /\ results_before = NoResults
    /\ tampered = 0
    /\ threads = << >>
    /\ call = NoCall
    /\ status_lists = << >>
    /\ status_call = NoCall

\* issue(vc, keys_cfg, verifying_contract) on the input credential
Issue ==
    /\ stage = "input"
    /\ results.none
    /\ \E r \in {issue(heap, vc, keys_cfg, verifying_contract)} :
           /\ arg' = vc
           /\ arg_before' = Snapshot(heap, vc)
           /\ heap' = Collect(r.heap, {vc, r.issued})
           /\ outcome' = IF r.raised THEN "issue_raised" ELSE "issue_returned"
           /\ stage' = IF r.raised THEN "failed" ELSE "issued"
           /\ doc' = IF r.raised THEN doc ELSE r.issued
           /\ proofs_meta' = r.proofs_meta
           /\ first_meta' = r.proofs_meta
    /\ UNCHANGED <<vc, keys_cfg, verifying_contract, expected_addresses,
                   results, results_before, tampered>>
    /\ UNCHANGED other_vars

\* issue again, on the credential the first call returned
Reissue ==
    /\ stage = "issued"
    /\ results.none
    /\ \E r \in {issue(heap, doc, keys_cfg, verifying_contract)} :
           /\ arg' = doc
           /\ arg_before' = Snapshot(heap, doc)
           /\ heap' = Collect(r.heap, {vc, doc, r.issued})
           /\ outcome' = IF r.raised THEN "issue_raised" ELSE "issue_returned"
           /\ stage' = IF r.raised THEN "failed" ELSE "reissued"
           /\ doc' = IF r.raised THEN doc ELSE r.issued
           /\ proofs_meta' = r.proofs_meta
    /\ UNCHANGED <<vc, keys_cfg, verifying_contract, expected_addresses,
                   first_meta, results, results_before, tampered>>
    /\ UNCHANGED other_vars

\* verify(doc, expected_addresses) on the credential at hand
Verify ==
    /\ stage \in {"input", "issued", "tampered", "forged", "annotated"}
    /\ results.none
    /\ \E r \in {verify(heap, doc, expected_addresses)} :
           /\ arg' = doc
           /\ arg_before' = Snapshot(heap, doc)
           /\ heap' = Collect(r.heap, {vc, doc})
           /\ outcome' = IF r.raised THEN "verify_raised" ELSE "verify_returned"
           /\ results' = [raised |-> r.raised, results |-> r.results, none |-> FALSE]
    /\ UNCHANGED <<vc, keys_cfg, verifying_contract, expected_addresses, doc, stage,
                   proofs_meta, first_meta, results_before, tampered>>
    /\ UNCHANGED other_vars

\* the objects holding content outside the proof objects: the three sections
\* (targets 1..3) and the document root (target 4)
TargetValue(h, d, i) == IF i = 4 THEN d ELSE get_by_path(h, d, SECTION_PATHS[i])

\* someone edits the issued credential outside its proof objects, without
\* signing again: a member is set to another value, added, or removed
Tamper(i, how, n) ==
    /\ stage = "issued"
    /\ ~results.none
    /\ \E target \in {TargetValue(heap, doc, i)} :
           /\ IsDict(target)
           /\ \/ /\ how = "set"
                 /\ i # 4
                 /\ DictGet(heap[target.n], ContentKey[i], None) # PyInt(n)
                 /\ heap' = [heap EXCEPT ![target.n] = DictSet(@, ContentKey[i], PyInt(n))]
              \/ /\ how = "add"
                 /\ heap' = [heap EXCEPT ![target.n] = DictSet(@, "x", PyInt(n))]
              \/ /\ how = "remove"
                 /\ n = 1
                 /\ heap' = [heap EXCEPT ![target.n] =
                                DictPop(@, IF i = 4 THEN "issuer" ELSE ContentKey[i])]
    /\ stage' = "tampered"
    /\ tampered' = i
    /\ results_before' = results
    /\ results' = NoResults
    /\ outcome' = "edited"
    /\ UNCHANGED <<vc, keys_cfg, verifying_contract, expected_addresses, doc,
                   arg, arg_before, proofs_meta, first_meta>>
    /\ UNCHANGED other_vars

\* h with "signer" set to addr in every proof object of the document d
RECURSIVE WithSigner(_, _, _, _)
WithSigner(h, d, addr, i) ==
    IF i > 4 THEN h
    ELSE Bind(TargetValue(h, d, i), LAMBDA target :
         Bind(IF IsDict(target)
              THEN DictGet(h[target.n], IF i = 4 THEN "proof" ELSE "sProof", None)
              ELSE None, LAMBDA proof :
         Bind(IF IsDict(proof)
              THEN [h EXCEPT ![proof.n] = DictSet(@, "signer", PyStr(addr))]
              ELSE h, LAMBDA h1 :
         WithSigner(h1, d, addr, i + 1))))

\* the holder of another key rewrites the credential: new content, the own
\* address as "signer" of every proof object, and the own signatures, made by
\* issue itself under the default domain
Forge(key) ==
    /\ stage = "issued"
    /\ ~results.none
    /\ \E h1 \in {[heap EXCEPT ![doc.n] = DictSet(@, "x", PyInt(1))]} :
       \E h2 \in {WithSigner(h1, doc, private_key_to_address(key), 1)} :
       \E r \in {issue(h2, doc,
                       [keys |-> [role \in {"identity", "compliance", "custody",
                                            "document"} |-> PrivKey(key)]],
                       ZeroAddress)} :
           /\ heap' = Collect(r.heap, {vc, r.issued})
           /\ doc' = r.issued
    /\ stage' = "forged"
    /\ tampered' = 0
    /\ results_before' = results
    /\ results' = NoResults
    /\ outcome' = "edited"
    /\ UNCHANGED <<vc, keys_cfg, verifying_contract, expected_addresses,
                   arg, arg_before, proofs_meta, first_meta>>
    /\ UNCHANGED other_vars

\* the "signer" values a proof object is annotated with: the empty string, or
\* the address of a key in lower case
SignerNotes == {""} \cup {Lower(private_key_to_address(key)) : key \in PrivateKeys}

\* the issued credential's proof objects get a "signer" field; hashes and
\* signatures stay as issued
Annotate(addr) ==
    /\ stage = "issued"
    /\ ~results.none
    /\ heap' = WithSigner(heap, doc, addr, 1)
    /\ stage' = "annotated"
    /\ tampered' = 0
    /\ results_before' = results
    /\ results' = NoResults
    /\ outcome' = "edited"
    /\ UNCHANGED <<vc, keys_cfg, verifying_contract, expected_addresses, doc,
                   arg, arg_before, proofs_meta, first_meta>>
    /\ UNCHANGED other_vars

Next ==
    \/ Issue
    \/ Reissue
    \/ Verify
    \/ \E i \in 1..4, how \in {"set", "add", "remove"}, n \in 1..MaxContent :
          Tamper(i, how, n)
    \/ \E key \in PrivateKeys : Forge(key)
    \/ \E addr \in SignerNotes : Annotate(addr)

Spec == Init /\ [][Next]_vars

-----------------------------------------------------------------------------
(* Signing a section message and checking the signature in another context *)

\* no credential at hand: the calls below take their inputs directly
NoCredential ==
    /\ vc = None
    /\ keys_cfg = [keys |-> << >>]
    /\ verifying_contract = ZeroAddress
    /\ expected_addresses = None
    /\ doc = None
    /\ stage = "none"
    /\ arg = None
    /\ arg_before = << >>
    /\ outcome = "none"
    /\ proofs_meta = << >>
    /\ first_meta = << >>
    /\ results = NoResults
    /\ results_before = NoResults
    /\ tampered = 0

\* the domains issue builds from a configuration and verify from a proof
ReplayDomains ==
    {Eip712Domain(name, version, chainId, contract) :
        name \in {"RWA-VC", "T"}, version \in {"1", "2"}, chainId \in {1, 5},
        contract \in Contracts}

\* keccak256_json of two section contents; a document may hash to the same
Digests == {"0x" \o keccak("{}"), "0x" \o keccak("{\"a\":1}")}

InitReplay ==
    /\ NoCredential
    /\ heap = << >>
    /\ threads = << >>
    /\ call = NoCall
    /\ status_lists = << >>
    /\ status_call = NoCall

\* issue's signing of a section: build_section_typed_data, sign_typed_data
SignSection(key, domain, path, digest) ==
    /\ call.op = "none"
    /\ \E typed \in {build_section_typed_data(domain, path, digest)} :
       \E signed \in {sign_typed_data(PrivKey(key), typed)} :
           call' = [op |-> "signed", domain |-> domain, typed |-> typed,
                    signature |-> signed.signature, signer |-> signed.signer]
    /\ UNCHANGED <<heap, threads, status_lists, status_call>>
    /\ UNCHANGED credential_vars

\* verify's recovery for the same section path and hash, under a domain
RecoverSection(domain) ==
    /\ call.op = "signed"
    /\ \E against \in {build_section_typed_data(domain, call.typed.message.path,
                                                 call.typed.message.sectionHash)} :
       \E rec \in {recover_typed_data_signer(against, call.signature)} :
           call' = [op |-> "recovered", domain |-> call.domain, typed |-> call.typed,
                    signer |-> call.signer, under |-> domain, against |-> against,
                    raised |-> rec.raised, recovered |-> rec.recovered]
    /\ UNCHANGED <<heap, threads, status_lists, status_call>>
    /\ UNCHANGED credential_vars

\* verify's recovery for a document hash, given the section's signature
RecoverDocument(domain, digest) ==
    /\ call.op = "signed"
    /\ \E against \in {build_document_typed_data(domain, digest)} :
       \E rec \in {recover_typed_data_signer(against, call.signature)} :
           call' = [op |-> "recovered", domain |-> call.domain, typed |-> call.typed,
                    signer |-> call.signer, under |-> domain, against |-> against,
                    raised |-> rec.raised, recovered |-> rec.recovered]
    /\ UNCHANGED <<heap, threads, status_lists, status_call>>
    /\ UNCHANGED credential_vars

NextReplay ==
    \/ \E key \in PrivateKeys, domain \in ReplayDomains, i \in 1..3, digest \in Digests :
          SignSection(key, domain, SECTION_PATHS[i], digest)
    \/ \E domain \in ReplayDomains : RecoverSection(domain)
    \/ \E domain \in ReplayDomains, digest \in Digests : RecoverDocument(domain, digest)

SpecReplay == InitReplay /\ [][NextReplay]_vars

-----------------------------------------------------------------------------
(* Calls of issue and verify running concurrently on one heap *)

\* json.dumps(value): the text of a value, its items in insertion order
RECURSIVE Repr(_, _)
RECURSIVE ReprItems(_, _, _)
ReprItems(h, items, i) ==
    IF i > Len(items) THEN ""
    ELSE "\"" \o items[i].key \o "\":" \o Repr(h, items[i].val)
         \o (IF i < Len(items) THEN "," ELSE "")
         \o ReprItems(h, items, i + 1)

Repr(h, v) ==
    CASE v.k = "none" -> "null"
      [] v.k = "int" -> ToString(v.n)
      [] v.k = "ref" -> Bind(InsertionItems(h[v.n]), LAMBDA items :
                             "{" \o ReprItems(h, items, 1) \o "}")
      [] OTHER -> "\"" \o StrOf(v) \o "\""

Threads == {1, 2}

\* the configuration and the expected addresses every thread passes
ThreadConfig ==
    [keys |-> [identity |-> PrivKey(1), compliance |-> PrivKey(2),
               custody |-> PrivKey(3), document |-> PrivKey(4)]]

ThreadExpected == DerivedAddresses(ThreadConfig.keys)

\* what issue returns, as a caller sees it: the issued document's text and
\* the proof records, or the failure
IssueReturn(r) ==
    [raised |-> r.raised,
     issued |-> IF r.raised THEN "" ELSE Repr(r.heap, r.issued),
     out |-> r.proofs_meta]

VerifyReturn(r) == [raised |-> r.raised, issued |-> "", out |-> r.results]

\* the call of a thread run alone on the heap h
Alone(h, op, input) ==
    IF op = "issue" THEN IssueReturn(issue(h, input, ThreadConfig, ZeroAddress))
    ELSE VerifyReturn(verify(h, input, ThreadExpected))

\* a thread about to call op(input) on the heap h
NewThread(h, op, input) ==
    [op |-> op, input |-> input, pc |-> "start", issued |-> None, clean |-> None,
     raised |-> FALSE, acc |-> << >>, ret |-> NoCall,
     alone |-> Alone(h, op, input), before |-> Snapshot(h, input)]

\* the heap the threads start on: an input credential at 1 and the credential
\* issued from it
ThreadHeap(shapes, top) ==
    Bind(issue(DocHeap(shapes, top), PyRef(1), ThreadConfig, ZeroAddress), LAMBDA r :
    [heap |-> Collect(r.heap, {PyRef(1), r.issued}), issued |-> r.issued])

InitThreads ==
    /\ NoCredential
    /\ \E top \in {"full", "none"} :
       \E start \in {ThreadHeap(<< "full", "absent", "full" >>, top)} :
          /\ heap = start.heap
          /\ threads \in [Threads -> {NewThread(start.heap, op, input) :
                                         op \in {"issue", "verify"},
                                         input \in {PyRef(1), start.issued}}]
    /\ call = NoCall
    /\ status_lists = << >>
    /\ status_call = NoCall

\* thread t moves to pc with the fields of its record changed as given
Goto(t, th) == threads' = [threads EXCEPT ![t] = th]

ThreadFrame == UNCHANGED <<call, status_lists, status_call>> /\ UNCHANGED credential_vars

\* issued = deepcopy(vc)
IssueCopy(t) ==
    /\ threads[t].op = "issue" /\ threads[t].pc = "start"
    /\ \E c0 \in {issued_copy(heap, threads[t].input)} :
          /\ heap' = c0.heap
          /\ Goto(t, [threads[t] EXCEPT !.pc = "strip", !.issued = c0.val])
    /\ ThreadFrame

\* clean_for_section_hash = _strip_existing_eip712(issued)
IssueStrip(t) ==
    /\ threads[t].op = "issue" /\ threads[t].pc = "strip"
    /\ \E c1 \in {strip_existing_eip712(heap, threads[t].issued)} :
          /\ heap' = c1.heap
          /\ Goto(t, [threads[t] EXCEPT !.pc = "section1", !.clean = c1.val])
    /\ ThreadFrame

PcOfSection == << "section1", "section2", "section3", "document" >>

\* one turn of issue's loop over the sections
IssueSectionStep(t, i) ==
    /\ threads[t].op = "issue" /\ threads[t].pc = PcOfSection[i]
    /\ \E r \in {IssueSection([raised |-> threads[t].raised, heap |-> heap,
                                proofs_meta |-> threads[t].acc],
                               threads[t].issued, threads[t].clean,
                               IssueDomain(ThreadConfig, ZeroAddress).domain,
                               SECTION_PATHS[i],
                               CfgGet(ThreadConfig.keys, SectionName[i], None))} :
          /\ heap' = r.heap
          /\ Goto(t, [threads[t] EXCEPT !.pc = PcOfSection[i + 1],
                                        !.raised = r.raised, !.acc = r.proofs_meta])
    /\ ThreadFrame

\* the document proof of issue, and its return
IssueDocumentStep(t) ==
    /\ threads[t].op = "issue" /\ threads[t].pc = "document"
    /\ \E r \in {IssueDocument([raised |-> threads[t].raised, heap |-> heap,
                                 proofs_meta |-> threads[t].acc],
                                threads[t].issued,
                                IssueDomain(ThreadConfig, ZeroAddress).domain,
                                CfgGet(ThreadConfig.keys, "document", None))} :
          /\ heap' = r.heap
          /\ Goto(t, [threads[t] EXCEPT !.pc = "done", !.ret = IssueReturn(r)])
    /\ ThreadFrame

\* clean = _strip_eip712(vc)
VerifyStrip(t) ==
    /\ threads[t].op = "verify" /\ threads[t].pc = "start"
    /\ \E c1 \in {strip_eip712(heap, threads[t].input)} :
          /\ heap' = c1.heap
          /\ Goto(t, [threads[t] EXCEPT !.pc = "section1", !.clean = c1.val])
    /\ ThreadFrame

\* one turn of verify's loop over the sections
VerifySectionStep(t, i) ==
    /\ threads[t].op = "verify" /\ threads[t].pc = PcOfSection[i]
    /\ \E r \in {VerifySection([raised |-> threads[t].raised,
                                 results |-> threads[t].acc],
                                heap, threads[t].input, threads[t].clean,
                                SECTION_PATHS[i], ThreadExpected)} :
          Goto(t, [threads[t] EXCEPT !.pc = PcOfSection[i + 1],
                                     !.raised = r.raised, !.acc = r.results])
    /\ UNCHANGED heap
    /\ ThreadFrame

\* the document part of verify, and its return
VerifyDocumentStep(t) ==
    /\ threads[t].op = "verify" /\ threads[t].pc = "document"
    /\ \E r \in {IF threads[t].raised
                  THEN [raised |-> TRUE, heap |-> heap, results |-> << >>]
                  ELSE VerifyDocument(heap, threads[t].input, ThreadExpected,
                                      threads[t].acc)} :
          /\ heap' = r.heap
          /\ Goto(t, [threads[t] EXCEPT !.pc = "done", !.ret = VerifyReturn(r)])
    /\ ThreadFrame

NextThreads ==
    \E t \in Threads :
        \/ IssueCopy(t)
        \/ IssueStrip(t)
        \/ \E i \in 1..3 : IssueSectionStep(t, i)
        \/ IssueDocumentStep(t)
        \/ VerifyStrip(t)
        \/ \E i \in 1..3 : VerifySectionStep(t, i)
        \/ VerifyDocumentStep(t)

SpecThreads == InitThreads /\ [][NextThreads]_vars

-----------------------------------------------------------------------------
(* Canonical JSON of two documents *)

\* the orders n items can be inserted in
Orders(n) == {p \in [1..n -> 1..n] : \A i, j \in 1..n : p[i] = p[j] => i = j}

Reorder(d, p) == [i \in DOMAIN d |-> d[p[i]]]

\* a document three objects deep at base+1 .. base+3, its items inserted in
\* the orders p, q, r
JsonDoc(base, va, vinner, p, q, r) ==
    [a \in (base + 1)..(base + 3) |->
        CASE a = base + 1 -> Reorder(<< Item("a", va), Item("b", PyRef(base + 2)),
                                       Item("c", None) >>, p)
          [] a = base + 2 -> Reorder(<< Item("x", PyStr("v")),
                                       Item("a", PyRef(base + 3)) >>, q)
          [] a = base + 3 -> Reorder(<< Item("b", vinner), Item("c", PyInt(2)) >>, r)]

\* D1 == D2 for Python values: dicts are equal when they have the same keys
\* with equal values, in whatever order
RECURSIVE DeepEqual(_, _, _)
DeepEqual(h, v1, v2) ==
    IF IsDict(v1) /\ IsDict(v2)
    THEN /\ Keys(h[v1.n]) = Keys(h[v2.n])
         /\ \A key \in Keys(h[v1.n]) :
                DeepEqual(h, DictGet(h[v1.n], key, None), DictGet(h[v2.n], key, None))
    ELSE v1 = v2

\* two documents on the heap, D1 at 1 and D2 at 4: the same members in any two
\* orders, or differing in one value three objects deep
InitCanonical ==
    /\ NoCredential
    /\ \E va \in {PyInt(1), PyStr("1")}, v1 \in {PyInt(1)}, v2 \in {PyInt(1), PyInt(MaxContent)},
          p1 \in Orders(3), q1 \in Orders(2), r1 \in Orders(2),
          p2 \in Orders(3), q2 \in Orders(2), r2 \in Orders(2) :
          heap = JsonDoc(0, va, v1, p1, q1, r1) @@ JsonDoc(3, va, v2, p2, q2, r2)
    /\ threads = << >>
    /\ call = NoCall
    /\ status_lists = << >>
    /\ status_call = NoCall

\* to_canonical_json(D1), to_canonical_json(D2)
Canonicalize ==
    /\ call.op = "none"
    /\ call' = [op |-> "canonical",
                c1 |-> to_canonical_json(heap, PyRef(1)),
                c2 |-> to_canonical_json(heap, PyRef(4))]
    /\ UNCHANGED <<heap, threads, status_lists, status_call>>
    /\ UNCHANGED credential_vars

\* keccak256_json(D1), keccak256_json(D2)
Hash ==
    /\ call.op = "canonical"
    /\ call' = [op |-> "hashed", c1 |-> call.c1, c2 |-> call.c2,
                h1 |-> keccak256_json(heap, PyRef(1)),
                h2 |-> keccak256_json(heap, PyRef(4))]
    /\ UNCHANGED <<heap, threads, status_lists, status_call>>
    /\ UNCHANGED credential_vars

NextCanonical == Canonicalize \/ Hash

SpecCanonical == InitCanonical /\ [][NextCanonical]_vars

-----------------------------------------------------------------------------
(* rwa_status_list_manager.py: StatusList2021 and StatusListManager;          *)
(* rwa_vc_verifier.py: the verifier's StatusListManager                       *)

\* the status lists the manager creates at construction
ListIds == {"identity-2025-01", "compliance-2025-01"}

\* the list ids callers ask for: the lists there are, and one there is not
AskedIds == ListIds \cup {"no-such-list"}

\* the indices callers ask for: those of the list, one below and one above
AskedIndices == (0 - 1)..ListSize

Statuses == {"valid", "revoked", "suspended"}

\* StatusList2021.__init__: every bit 0, no detailed entry; updated counts the
\* writes of the updated timestamp; lock is the thread holding _lock, 0 when
\* it is free
StatusList2021(list_id, purpose, size) ==
    [list_id |-> list_id, purpose |-> purpose, size |-> size,
     status_bits |-> [i \in 0..(size - 1) |-> 0],
     detailed_status |-> << >>,
     updated |-> 0,
     lock |-> 0]

\* StatusListManager.get_status_list(list_id): the list, or None
get_status_list(lists, list_id) ==
    IF list_id \in DOMAIN lists THEN lists[list_id] ELSE None

\* StatusList2021.update_status(index, status): [raised, list]
update_status(list, index, status) ==
    IF index >= list.size \/ index < 0 THEN [raised |-> TRUE, list |-> list]
    ELSE [raised |-> FALSE,
          list |-> [list EXCEPT
                       !.status_bits[index] =
                           IF status = "revoked" \/ status = "suspended" THEN 1 ELSE 0,
                       !.detailed_status =
                           [i \in DOMAIN list.detailed_status \cup {index} |->
                               IF i = index THEN [index |-> index, status |-> status]
                               ELSE list.detailed_status[i]],
                       !.updated = @ + 1]]

\* StatusList2021.get_status(index): [raised, returned]
get_status(list, index) ==
    IF index >= list.size \/ index < 0 THEN [raised |-> TRUE, returned |-> ""]
    ELSE [raised |-> FALSE,
          returned |-> IF index \in DOMAIN list.detailed_status
                       THEN list.detailed_status[index].status
                       ELSE IF list.status_bits[index] = 1 THEN "revoked" ELSE "valid"]

\* StatusListManager.check_credential_status(list_id, index): [raised, returned]
check_credential_status(lists, list_id, index) ==
    Bind(get_status_list(lists, list_id), LAMBDA status_list :
    IF status_list = None THEN [raised |-> FALSE, returned |-> "unknown"]
    ELSE get_status(status_list, index))

\* the writes of update_status and of one turn of batch_update_status: the
\* bit, then the detailed entry
apply_update(list, index, status) ==
    [list EXCEPT
        !.status_bits[index] =
            IF status = "revoked" \/ status = "suspended" THEN 1 ELSE 0,
        !.detailed_status =
            [i \in DOMAIN list.detailed_status \cup {index} |->
                IF i = index THEN [index |-> index, status |-> status]
                ELSE list.detailed_status[i]]]

\* the loop of batch_update_status ending at the first invalid index
RECURSIVE batch_stops_at_invalid(_, _, _)
batch_stops_at_invalid(list, updates, i) ==
    IF i > Len(updates) THEN list
    ELSE IF updates[i].index >= list.size \/ updates[i].index < 0
         THEN list
         ELSE batch_stops_at_invalid(
                  apply_update(list, updates[i].index, updates[i].status),
                  updates, i + 1)

\* the loop of batch_update_status from entry i on: an invalid index is skipped
RECURSIVE batch_from(_, _, _)
batch_from(list, updates, i) ==
    IF i > Len(updates) THEN list
    ELSE IF updates[i].index >= list.size \/ updates[i].index < 0
         THEN batch_from(list, updates, i + 1)
         ELSE batch_from(apply_update(list, updates[i].index, updates[i].status),
                         updates, i + 1)

\* StatusList2021.batch_update_status(updates): the list after it
batch_update_status(list, updates) ==
    [batch_from(list, updates, 1) EXCEPT !.updated = @ + 1]

\* the entries get_metrics updates: range(min(100, size))
MetricsEntries == 100

Min(a, b) == IF a < b THEN a ELSE b

\* StatusList2021.get_metrics(): [raised, list]; get_status(0) raises on a
\* list without entries, then the first entries are batch-updated to valid
get_metrics(list) ==
    IF get_status(list, 0).raised THEN [raised |-> TRUE, list |-> list]
    ELSE [raised |-> FALSE,
          list |-> batch_update_status(
                       list,
                       [j \in 1..Min(MetricsEntries, list.size) |->
                           [index |-> j - 1, status |-> "valid"]])]

\* the entries of the verifier's mock status lists
mock_status(i) ==
    IF i % 1000 = 0 THEN "revoked" ELSE IF i % 500 = 0 THEN "suspended" ELSE "valid"

MockLists == {"https://status.example.org/identity/2025-01"}

\* the indices asked of a mock list: in it (revoked, suspended, valid), below
\* it and above it
MockIndices == {0 - 1, 0, 1, 500, 100000}

\* the verifier's StatusListManager.check_status(status_list_url, index)
check_status(status_list_url, index) ==
    IF status_list_url \notin MockLists THEN "unknown"
    ELSE IF index \in 0..99999 THEN mock_status(index) ELSE "unknown"

InitStatus ==
    /\ NoCredential
    /\ heap = << >>
    /\ threads = << >>
    /\ call = NoCall
    /\ status_lists = [id \in ListIds |->
                          StatusList2021(id, IF id = "compliance-2025-01"
                                             THEN "suspension" ELSE "revocation",
                                         ListSize)]
    /\ status_call = NoCall

StatusFrame == UNCHANGED <<heap, threads, call>> /\ UNCHANGED credential_vars

\* StatusListManager.update_credential_status(list_id, index, status)
UpdateCredentialStatus(list_id, index, status) ==
    /\ \E status_list \in {get_status_list(status_lists, list_id)} :
          IF status_list = None
          THEN /\ status_call' = [op |-> "update", list_id |-> list_id, index |-> index,
                                  raised |-> TRUE, returned |-> ""]
               /\ UNCHANGED status_lists
          ELSE /\ status_list.updated < MaxUpdates
               /\ \E r \in {update_status(status_list, index, status)} :
                     /\ status_lists' = [status_lists EXCEPT ![list_id] = r.list]
                     /\ status_call' = [op |-> "update", list_id |-> list_id,
                                        index |-> index, raised |-> r.raised,
                                        returned |-> ""]
    /\ StatusFrame

\* StatusListManager.check_credential_status(list_id, index)
CheckCredentialStatus(list_id, index) ==
    /\ \E r \in {check_credential_status(status_lists, list_id, index)} :
          status_call' = [op |-> "check", list_id |-> list_id, index |-> index,
                          raised |-> r.raised, returned |-> r.returned]
    /\ UNCHANGED status_lists
    /\ StatusFrame

\* the verifier's check_status(status_list_url, index)
CheckStatus(status_list_url, index) ==
    /\ status_call' = [op |-> "check_status", list_id |-> status_list_url,
                       index |-> index, raised |-> FALSE,
                       returned |-> check_status(status_list_url, index)]
    /\ UNCHANGED status_lists
    /\ StatusFrame

\* StatusListManager.get_all_metrics(): get_metrics of every list
GetAllMetrics ==
    /\ \A id \in DOMAIN status_lists : status_lists[id].updated < MaxUpdates
    /\ status_lists' = [id \in DOMAIN status_lists |-> get_metrics(status_lists[id]).list]
    /\ status_call' = [op |-> "get_all_metrics", list_id |-> "", index |-> 0,
                       raised |-> FALSE, returned |-> ""]
    /\ StatusFrame

NextStatus ==
    \/ GetAllMetrics
    \/ \E list_id \in AskedIds, index \in AskedIndices, status \in Statuses :
          UpdateCredentialStatus(list_id, index, status)
    \/ \E list_id \in AskedIds, index \in AskedIndices :
          CheckCredentialStatus(list_id, index)
    \/ \E url \in MockLists \cup {"no-such-list"}, index \in MockIndices :
          CheckStatus(url, index)

SpecStatus == InitStatus /\ [][NextStatus]_vars

-----------------------------------------------------------------------------
(* One status list: single and batch updates, queries, metrics *)

\* the list of the model
TheList == "identity-2025-01"

\* the batches callers pass: no entry, one, or two, of indices in and out of
\* the list
BatchEntries == {[index |-> i, status |-> st] : i \in AskedIndices,
                                               st \in {"valid", "revoked"}}

Batches ==
    {<< >>} \cup {<< e >> : e \in BatchEntries}
            \cup {<< e1, e2 >> : e1 \in BatchEntries, e2 \in BatchEntries}

InitList ==
    /\ NoCredential
    /\ heap = << >>
    /\ threads = << >>
    /\ call = NoCall
    /\ status_lists = [id \in {TheList} |-> StatusList2021(id, "revocation", ListSize)]
    /\ status_call = NoCall

\* StatusList2021.update_status(index, status)
UpdateStatus(index, status) ==
    /\ status_lists[TheList].updated < MaxUpdates
    /\ \E r \in {update_status(status_lists[TheList], index, status)} :
          /\ status_lists' = [status_lists EXCEPT ![TheList] = r.list]
          /\ status_call' = [op |-> "update_status", index |-> index,
                             status |-> status, raised |-> r.raised,
                             before |-> status_lists[TheList]]
    /\ StatusFrame

\* StatusList2021.batch_update_status(updates)
BatchUpdateStatus(updates) ==
    /\ status_lists[TheList].updated < MaxUpdates
    /\ status_lists' = [status_lists EXCEPT
                           ![TheList] = batch_update_status(@, updates)]
    /\ status_call' = [op |-> "batch_update_status", updates |-> updates,
                       raised |-> FALSE, before |-> status_lists[TheList]]
    /\ StatusFrame

\* StatusList2021.get_status(index)
GetStatus(index) ==
    /\ \E r \in {get_status(status_lists[TheList], index)} :
          status_call' = [op |-> "get_status", index |-> index, raised |-> r.raised,
                          returned |-> r.returned, before |-> status_lists[TheList]]
    /\ UNCHANGED status_lists
    /\ StatusFrame

\* StatusList2021.get_metrics()
GetMetrics ==
    /\ status_lists[TheList].updated < MaxUpdates
    /\ \E r \in {get_metrics(status_lists[TheList])} :
          /\ status_lists' = [status_lists EXCEPT ![TheList] = r.list]
          /\ status_call' = [op |-> "get_metrics", raised |-> r.raised,
                             before |-> status_lists[TheList]]
    /\ StatusFrame

NextList ==
    \/ \E index \in AskedIndices, status \in Statuses : UpdateStatus(index, status)
    \/ \E updates \in Batches : BatchUpdateStatus(updates)
    \/ \E index \in AskedIndices : GetStatus(index)
    \/ GetMetrics

SpecList == InitList /\ [][NextList]_vars

-----------------------------------------------------------------------------
(* One status list used by several threads: each write and read of        *)
(* update_status, batch_update_status and get_status is a step            *)

\* entering "with self._lock" without taking the lock
acquire_unlocked(list, t) == [acquired |-> TRUE, list |-> list]

\* "with self._lock" entered by thread t: the RLock is taken when it is free
\* or held by t, and t waits otherwise; [acquired, list]
acquire(list, t) ==
    IF list.lock \in {0, t}
    THEN [acquired |-> TRUE, list |-> [list EXCEPT !.lock = t]]
    ELSE [acquired |-> FALSE, list |-> list]

ListThreads == {1, 2}

\* a thread that runs no call
IdleThread ==
    [op |-> "none", pc |-> "idle", index |-> 0, status |-> "", updates |-> << >>,
     i |-> 0, bit_value |-> 0, had_entry |-> FALSE, returned |-> "",
     raised |-> FALSE, expected |-> ""]

\* the batches the threads pass
ThreadBatches ==
    { << [index |-> 0, status |-> "revoked"], [index |-> 1, status |-> "suspended"] >>,
      << [index |-> 0, status |-> "valid"], [index |-> ListSize, status |-> "revoked"] >> }

\* the indices the threads pass: those of the list, and the one above
ThreadIndices == 0..ListSize

\* call.last[index]: the status of the update last applied to the index, ""
\* when there was none
InitListThreads ==
    /\ NoCredential
    /\ heap = << >>
    /\ threads = [t \in ListThreads |-> IdleThread]
    /\ call = [op |-> "applied", last |-> [index \in 0..(ListSize - 1) |-> ""]]
    /\ status_lists = [id \in {TheList} |-> StatusList2021(id, "revocation", ListSize)]
    /\ status_call = NoCall

ListThreadFrame == UNCHANGED <<heap, status_call>> /\ UNCHANGED credential_vars

\* the writing calls begun and not yet finished
Writing == {t \in ListThreads : /\ threads[t].op \in {"update_status",
                                                       "batch_update_status"}
                                /\ threads[t].pc # "done"}

\* thread t calls update_status(index, status)
StartUpdate(t, index, status) ==
    /\ threads[t].pc \in {"idle", "done"}
    /\ status_lists[TheList].updated + Cardinality(Writing) < MaxUpdates
    /\ threads' = [threads EXCEPT ![t] =
                      [IdleThread EXCEPT !.op = "update_status", !.pc = "start",
                                         !.index = index, !.status = status]]
    /\ UNCHANGED <<status_lists, call>>
    /\ ListThreadFrame

\* thread t calls batch_update_status(updates)
StartBatch(t, updates) ==
    /\ threads[t].pc \in {"idle", "done"}
    /\ status_lists[TheList].updated + Cardinality(Writing) < MaxUpdates
    /\ threads' = [threads EXCEPT ![t] =
                      [IdleThread EXCEPT !.op = "batch_update_status", !.pc = "start",
                                         !.updates = updates, !.i = 1]]
    /\ UNCHANGED <<status_lists, call>>
    /\ ListThreadFrame

\* thread t calls get_status(index)
StartGet(t, index) ==
    /\ threads[t].pc \in {"idle", "done"}
    /\ threads' = [threads EXCEPT ![t] =
                      [IdleThread EXCEPT !.op = "get_status", !.pc = "start",
                                         !.index = index]]
    /\ UNCHANGED <<status_lists, call>>
    /\ ListThreadFrame

\* with self._lock:
Acquire(t) ==
    /\ threads[t].pc = "start"
    /\ \E r \in {acquire(status_lists[TheList], t)} :
          /\ r.acquired
          /\ status_lists' = [status_lists EXCEPT ![TheList] = r.list]
    /\ threads' = [threads EXCEPT ![t].pc = "check"]
    /\ UNCHANGED call
    /\ ListThreadFrame

\* if index >= self.size or index < 0: raise, in update_status and get_status;
\* continue, in the loop of batch_update_status, which ends after the last entry
CheckIndex(t) ==
    /\ threads[t].pc = "check"
    /\ LET th == threads[t]
           size == status_lists[TheList].size
       IN  IF th.op = "batch_update_status"
           THEN threads' = [threads EXCEPT ![t] =
                    IF th.i > Len(th.updates) THEN [th EXCEPT !.pc = "stamp"]
                    ELSE IF th.updates[th.i].index >= size \/ th.updates[th.i].index < 0
                         THEN [th EXCEPT !.i = @ + 1]
                         ELSE [th EXCEPT !.pc = "bit",
                                         !.index = th.updates[th.i].index,
                                         !.status = th.updates[th.i].status]]
           ELSE threads' = [threads EXCEPT ![t] =
                    IF th.index >= size \/ th.index < 0
                    THEN [th EXCEPT !.pc = "release", !.raised = TRUE]
                    ELSE [th EXCEPT !.pc = "bit"]]
    /\ UNCHANGED <<status_lists, call>>
    /\ ListThreadFrame

\* self.status_bits[index] = 1 or 0
WriteBit(t) ==
    /\ threads[t].pc = "bit"
    /\ threads[t].op # "get_status"
    /\ status_lists' = [status_lists EXCEPT
                           ![TheList].status_bits[threads[t].index] =
                               IF threads[t].status = "revoked"
                                  \/ threads[t].status = "suspended" THEN 1 ELSE 0]
    /\ call' = [call EXCEPT !.last[threads[t].index] = threads[t].status]
    /\ threads' = [threads EXCEPT ![t].pc = "detail"]
    /\ ListThreadFrame

\* self.detailed_status[index] = StatusEntry(...)
WriteDetailed(t) ==
    /\ threads[t].pc = "detail"
    /\ threads[t].op # "get_status"
    /\ status_lists' = [status_lists EXCEPT
                           ![TheList].detailed_status =
                               [i \in DOMAIN @ \cup {threads[t].index} |->
                                   IF i = threads[t].index
                                   THEN [index |-> i, status |-> threads[t].status]
                                   ELSE @[i]]]
    /\ threads' = [threads EXCEPT ![t] =
                      IF @.op = "batch_update_status"
                      THEN [@ EXCEPT !.pc = "check", !.i = @ + 1]
                      ELSE [@ EXCEPT !.pc = "stamp"]]
    /\ UNCHANGED call
    /\ ListThreadFrame

\* self.updated = datetime.now(...)
Stamp(t) ==
    /\ threads[t].pc = "stamp"
    /\ status_lists' = [status_lists EXCEPT ![TheList].updated = @ + 1]
    /\ threads' = [threads EXCEPT ![t].pc = "release"]
    /\ UNCHANGED call
    /\ ListThreadFrame

\* bit_value = self.status_bits[index]
ReadBit(t) ==
    /\ threads[t].pc = "bit"
    /\ threads[t].op = "get_status"
    /\ threads' = [threads EXCEPT
                      ![t].bit_value = status_lists[TheList].status_bits[threads[t].index],
                      ![t].expected = call.last[threads[t].index],
                      ![t].pc = "detail"]
    /\ UNCHANGED <<status_lists, call>>
    /\ ListThreadFrame

\* status = self.detailed_status[index].status if there is an entry,
\* "revoked" if bit_value else "valid" otherwise
ReadDetailed(t) ==
    /\ threads[t].pc = "detail"
    /\ threads[t].op = "get_status"
    /\ LET th == threads[t]
           detailed == status_lists[TheList].detailed_status
       IN  threads' = [threads EXCEPT ![t] =
               [th EXCEPT !.had_entry = th.index \in DOMAIN detailed,
                          !.returned = IF th.index \in DOMAIN detailed
                                       THEN detailed[th.index].status
                                       ELSE IF th.bit_value = 1 THEN "revoked"
                                            ELSE "valid",
                          !.pc = "release"]]
    /\ UNCHANGED <<status_lists, call>>
    /\ ListThreadFrame

\* the end of "with self._lock", by return or by the exception
Release(t) ==
    /\ threads[t].pc = "release"
    /\ status_lists' = [status_lists EXCEPT ![TheList].lock = 0]
    /\ threads' = [threads EXCEPT ![t].pc = "done"]
    /\ UNCHANGED call
    /\ ListThreadFrame

NextListThreads ==
    \/ \E t \in ListThreads, index \in ThreadIndices, status \in Statuses :
          StartUpdate(t, index, status)
    \/ \E t \in ListThreads, updates \in ThreadBatches : StartBatch(t, updates)
    \/ \E t \in ListThreads, index \in ThreadIndices : StartGet(t, index)
    \/ \E t \in ListThreads : Acquire(t)
    \/ \E t \in ListThreads : CheckIndex(t)
    \/ \E t \in ListThreads : WriteBit(t)
    \/ \E t \in ListThreads : WriteDetailed(t)
    \/ \E t \in ListThreads : Stamp(t)
    \/ \E t \in ListThreads : ReadBit(t)
    \/ \E t \in ListThreads : ReadDetailed(t)
    \/ \E t \in ListThreads : Release(t)

SpecListThreads == InitListThreads /\ [][NextListThreads]_vars

-----------------------------------------------------------------------------
(* Two credentials that differ inside their proof objects only *)

\* the proof object of target i (1..3 the sections, 4 the root) of d, or None
ProofObject(h, d, i) ==
    Bind(TargetValue(h, d, i), LAMBDA target :
    IF IsDict(target)
    THEN DictGet(h[target.n], IF i = 4 THEN "proof" ELSE "sProof", None)
    ELSE None)

\* the values someone may put into a proof object's field in place of the
\* issued one: another hash, another signer's signature, a string that is no
\* signature, another signer
ProofEdits ==
    [sectionHash |-> {PyStr("0x" \o keccak("{}"))},
     proofValue |-> {SigValue(2, "forged"), PyStr("")},
     signer |-> {PyStr(private_key_to_address(2))}]

\* issue(vc), kept as vc, and a deep copy of it, kept as doc
InitProofs ==
    /\ keys_cfg = [keys |-> [identity |-> PrivKey(1), compliance |-> PrivKey(2),
                             custody |-> PrivKey(3), document |-> PrivKey(4)]]
    /\ verifying_contract = ZeroAddress
    /\ \E s1 \in {"full", "noType"} :
       \E r \in {issue(DocHeap(<< s1, "absent", "full" >>, "full"), PyRef(1), keys_cfg,
                       verifying_contract)} :
       \E c \in {deepcopy(Collect(r.heap, {r.issued}), r.issued)} :
           /\ heap = c.heap
           /\ vc = r.issued
           /\ doc = c.val
    /\ expected_addresses = None
    /\ stage = "none"
    /\ arg = None
    /\ arg_before = << >>
    /\ outcome = "none"
    /\ proofs_meta = << >>
    /\ first_meta = << >>
    /\ results = NoResults
    /\ results_before = NoResults
    /\ tampered = 0
    /\ threads = << >>
    /\ call = NoCall
    /\ status_lists = << >>
    /\ status_call = NoCall

\* the variables an edit of doc's proofs and a call on both credentials leave
ProofsFrame ==
    UNCHANGED <<vc, keys_cfg, verifying_contract, expected_addresses, doc, stage,
                arg, arg_before, outcome, proofs_meta, first_meta, results,
                results_before, tampered, threads, status_lists, status_call>>

\* a field of the proof object of target i of doc, still as issued, is set
\* to another value
EditProof(i, key, value) ==
    /\ \E issued \in {ProofObject(heap, vc, i)}, proof \in {ProofObject(heap, doc, i)} :
           /\ IsDict(proof)
           /\ key = "signer" \/ Has(heap[proof.n], key)
           /\ DictGet(heap[proof.n], key, None) = DictGet(heap[issued.n], key, None)
           /\ heap' = [heap EXCEPT ![proof.n] = DictSet(@, key, value)]
    /\ call' = NoCall
    /\ ProofsFrame

\* the root proof of doc gets an embedded domain
EmbedRootDomain(name) ==
    /\ \E proof \in {ProofObject(heap, doc, 4)}, new \in {MaxAddr(heap) + 1} :
           /\ IsDict(proof)
           /\ ~Has(heap[proof.n], "domain")
           /\ heap' = [a \in DOMAIN heap \cup {new} |->
                          IF a = new THEN << Item("name", PyStr(name)) >>
                          ELSE IF a = proof.n
                               THEN DictSet(heap[a], "domain", PyRef(new))
                               ELSE heap[a]]
    /\ call' = NoCall
    /\ ProofsFrame

\* what issue returned, for the comparison: raised and the documentHash
IssueSummary(r) ==
    [raised |-> r.raised,
     documentHash |-> IF r.raised THEN ""
                      ELSE r.proofs_meta[Len(r.proofs_meta)].documentHash]

\* what verify returned, for the comparison: raised and the result for "/"
VerifySummary(r) ==
    [raised |-> r.raised,
     root |-> IF r.raised THEN [path |-> ""] ELSE r.results[Len(r.results)]]

\* issue on each of the two credentials
IssueBoth ==
    /\ call.op = "none"
    /\ call' = [op |-> "issue",
                first |-> IssueSummary(issue(heap, vc, keys_cfg, verifying_contract)),
                second |-> IssueSummary(issue(heap, doc, keys_cfg, verifying_contract))]
    /\ UNCHANGED heap
    /\ ProofsFrame

\* verify on each of the two credentials
VerifyBoth ==
    /\ call.op = "none"
    /\ call' = [op |-> "verify",
                first |-> VerifySummary(verify(heap, vc, expected_addresses)),
                second |-> VerifySummary(verify(heap, doc, expected_addresses))]
    /\ UNCHANGED heap
    /\ ProofsFrame

NextProofs ==
    \/ \E i \in 1..3, key \in {"sectionHash", "proofValue"} :
          \E value \in ProofEdits[key] : EditProof(i, key, value)
    \/ \E key \in {"proofValue", "signer"} :
          \E value \in ProofEdits[key] : EditProof(4, key, value)
    \/ EmbedRootDomain("T")
    \/ IssueBoth
    \/ VerifyBoth

SpecProofs == InitProofs /\ [][NextProofs]_vars

-----------------------------------------------------------------------------
(* Resolving a slash path, given by its characters, in any value *)

\* path.split("/"): the segments between the slashes, the empty ones too;
\* cur is the segment being read, i the position
RECURSIVE SplitFrom(_, _, _)
SplitFrom(chars, cur, i) ==
    IF i > Len(chars) THEN << cur >>
    ELSE IF chars[i] = "/" THEN << cur >> \o SplitFrom(chars, "", i + 1)
         ELSE SplitFrom(chars, cur \o chars[i], i + 1)

split(chars) == SplitFrom(chars, "", 1)

\* [p for p in path.split("/") if p]
PathSegments(chars) == SelectSeq(split(chars), LAMBDA p : p # "")

\* _get_by_path(doc, path), path given by its characters
GetByPath(h, d, chars) == Walk(h, d, PathSegments(chars), 1)

PathChars == {"/", "a", "b"}

Paths == UNION {[1..n -> PathChars] : n \in 0..MaxPath}

\* {"a": {"b": "s", "a": {}}, "b": 1, "n": null} at address 1
PathHeap ==
    << << Item("a", PyRef(2)), Item("b", PyInt(1)), Item("n", None) >>,
       << Item("b", PyStr("s")), Item("a", PyRef(3)) >>,
       << >> >>

\* the values _get_by_path is given as doc: objects, and values that are none
PathDocs == {PyRef(1), PyRef(2), PyRef(3), PyStr("s"), PyInt(1), None}

InitPath ==
    /\ NoCredential
    /\ heap = PathHeap
    /\ threads = << >>
    /\ \E d \in PathDocs, path \in Paths :
           call = [op |-> "asked", doc |-> d, path |-> path]
    /\ status_lists = << >>
    /\ status_call = NoCall

\* _get_by_path(doc, path)
Resolve ==
    /\ call.op = "asked"
    /\ call' = [op |-> "resolved", doc |-> call.doc, path |-> call.path,
                returned |-> GetByPath(heap, call.doc, call.path)]
    /\ UNCHANGED <<heap, threads, status_lists, status_call>>
    /\ UNCHANGED credential_vars

NextPath == Resolve

SpecPath == InitPath /\ [][NextPath]_vars

-----------------------------------------------------------------------------
(* Verifying a credential whose proof objects embed a domain *)

DomainKeys == << "name", "version", "chainId", "verifyingContract" >>

\* the values a sub-field of an embedded domain takes, when it is there
DomainFieldValues ==
    [name |-> {PyStr("T")},
     version |-> {PyStr("2"), PyInt(2)},
     chainId |-> {PyInt(5), PyStr("5")},
     verifyingContract |-> {PyStr("0x00000000000000000000000000000000000000c1")}]

\* the embedded domains: any of the four sub-fields may be missing
EmbeddedDomains ==
    UNION {{f \in [fields -> UNION {DomainFieldValues[k] : k \in fields}] :
               \A k \in fields : f[k] \in DomainFieldValues[k]} :
           fields \in SUBSET {"name", "version", "chainId", "verifyingContract"}}

\* the dict object of an embedded domain
DomainDict(f) ==
    LET present == SelectSeq(DomainKeys, LAMBDA k : k \in DOMAIN f)
    IN  [j \in 1..Len(present) |-> Item(present[j], f[present[j]])]

\* the configurations issue signs under: no domain, or one of eight
DomainConfigs ==
    {[keys |-> [identity |-> PrivKey(1), compliance |-> PrivKey(2),
                custody |-> PrivKey(3), document |-> PrivKey(4)]]}
    \cup {[domain |-> [name |-> PyStr(name), version |-> PyStr(version),
                       chainId |-> PyInt(chainId)],
           keys |-> [identity |-> PrivKey(1), compliance |-> PrivKey(2),
                     custody |-> PrivKey(3), document |-> PrivKey(4)]] :
          name \in {"RWA-VC", "T"}, version \in {"1", "2"}, chainId \in {1, 5}}

\* a credential issued under some domain and verifying contract
InitDomain ==
    /\ keys_cfg \in DomainConfigs
    /\ verifying_contract \in Contracts
    /\ \E r \in {issue(DocHeap(<< "full", "absent", "full" >>, "full"), PyRef(1),
                       keys_cfg, verifying_contract)} :
           /\ heap = Collect(r.heap, {r.issued})
           /\ vc = r.issued
           /\ doc = r.issued
           /\ proofs_meta = r.proofs_meta
           /\ first_meta = r.proofs_meta
    /\ expected_addresses = None
    /\ stage = "issued"
    /\ arg = None
    /\ arg_before = << >>
    /\ outcome = "issue_returned"
    /\ results = NoResults
    /\ results_before = NoResults
    /\ tampered = 0
    /\ threads = << >>
    /\ call = NoCall
    /\ status_lists = << >>
    /\ status_call = NoCall

\* h with "domain" set to the object at address new in every proof object of d
RECURSIVE WithDomain(_, _, _, _)
WithDomain(h, d, new, i) ==
    IF i > 4 THEN h
    ELSE Bind(ProofObject(h, d, i), LAMBDA proof :
         Bind(IF IsDict(proof)
              THEN [h EXCEPT ![proof.n] = DictSet(@, "domain", PyRef(new))]
              ELSE h, LAMBDA h1 :
         WithDomain(h1, d, new, i + 1)))

\* the issued credential's proof objects get an embedded domain
EmbedDomain(f) ==
    /\ stage = "issued"
    /\ results.none
    /\ \E new \in {MaxAddr(heap) + 1} :
           heap' = WithDomain([a \in DOMAIN heap \cup {new} |->
                                  IF a = new THEN DomainDict(f) ELSE heap[a]],
                              doc, new, 1)
    /\ stage' = "annotated"
    /\ outcome' = "edited"
    /\ UNCHANGED <<vc, keys_cfg, verifying_contract, expected_addresses, doc,
                   arg, arg_before, proofs_meta, first_meta, results,
                   results_before, tampered>>
    /\ UNCHANGED other_vars

NextDomain ==
    \/ \E f \in EmbeddedDomains : EmbedDomain(f)
    \/ Verify

SpecDomain == InitDomain /\ [][NextDomain]_vars

-----------------------------------------------------------------------------
(* scripts/spv/spv_algorithm_analysis.py: the Merkle tree and its proofs *)

\* hash_data(data): the SHA-256 hex digest, one text per input
hash_data(data) == "H(" \o data \o ")"

\* the level above current_level: pairs are hashed together, a last node
\* without partner with itself
NextLevel(current_level) ==
    [j \in 1..((Len(current_level) + 1) \div 2) |->
        IF 2 * j <= Len(current_level)
        THEN hash_data(current_level[2 * j - 1] \o current_level[2 * j])
        ELSE hash_data(current_level[2 * j - 1] \o current_level[2 * j - 1])]

\* the levels from current_level up to the root
RECURSIVE LevelsFrom(_)
LevelsFrom(current_level) ==
    IF Len(current_level) > 1
    THEN << current_level >> \o LevelsFrom(NextLevel(current_level))
    ELSE << current_level >>

\* MerkleTree(transactions), transactions not empty: [transactions, tree, root]
build_tree(transactions) ==
    Bind(LevelsFrom([j \in 1..Len(transactions) |-> hash_data(transactions[j])]),
         LAMBDA tree :
    [transactions |-> transactions, tree |-> tree, root |-> tree[Len(tree)][1]])

\* a_list[k] of Python: k counts from 0, a negative k from the end;
\* [raised, value]
PyIndex(a_list, k) ==
    IF k >= 0 /\ k < Len(a_list) THEN [raised |-> FALSE, value |-> a_list[k + 1]]
    ELSE IF k < 0 /\ k >= 0 - Len(a_list)
         THEN [raised |-> FALSE, value |-> a_list[Len(a_list) + k + 1]]
         ELSE [raised |-> TRUE, value |-> ""]

\* the loop of get_merkle_proof from the level numbered level (0 the leaves):
\* [raised, proof], raised "IndexError" when an index is outside its level
RECURSIVE ProofFrom(_, _, _, _)
ProofFrom(tree, level, current_index, proof) ==
    IF level >= Len(tree) - 1 THEN [raised |-> "", proof |-> proof]
    ELSE Bind(tree[level + 1], LAMBDA current_level :
         Bind(IF current_index % 2 = 0
              THEN IF current_index + 1 < Len(current_level)
                   THEN [at |-> PyIndex(current_level, current_index + 1),
                         position |-> "right"]
                   ELSE [at |-> PyIndex(current_level, current_index),
                         position |-> "right"]
              ELSE [at |-> PyIndex(current_level, current_index - 1),
                    position |-> "left"], LAMBDA sibling :
         IF sibling.at.raised THEN [raised |-> "IndexError", proof |-> << >>]
         ELSE ProofFrom(tree, level + 1, current_index \div 2,
                        Append(proof, [hash |-> sibling.at.value,
                                       position |-> sibling.position]))))

\* MerkleTree.get_merkle_proof(tx_index): [raised, proof]
get_merkle_proof(merkle, tx_index) ==
    IF tx_index >= Len(merkle.transactions)
    THEN [raised |-> "ValueError", proof |-> << >>]
    ELSE ProofFrom(merkle.tree, 0, tx_index, << >>)

\* the loop of verify_spv_proof from element i of the proof: the hash reached
RECURSIVE RootFrom(_, _, _)
RootFrom(current_hash, proof, i) ==
    IF i > Len(proof) THEN current_hash
    ELSE RootFrom(hash_data(IF proof[i].position = "left"
                            THEN proof[i].hash \o current_hash
                            ELSE current_hash \o proof[i].hash),
                  proof, i + 1)

\* MerkleTree.verify_spv_proof(tx_hash, tx_index, proof)
verify_spv_proof(merkle, tx_hash, tx_index, proof) ==
    RootFrom(tx_hash, proof, 1) = merkle.root

\* MerkleTree.get_tree_height()
get_tree_height(merkle) == Len(merkle.tree)

\* the transaction lists: one to MaxTx transactions, equal ones among them
Transactions == UNION {[1..n -> {"tx_a", "tx_b"}] : n \in 1..MaxTx}

InitMerkle ==
    /\ NoCredential
    /\ heap = << >>
    /\ threads = << >>
    /\ \E transactions \in Transactions :
          call = [op |-> "built", merkle |-> build_tree(transactions)]
    /\ status_lists = << >>
    /\ status_call = NoCall

\* tree.get_merkle_proof(tx_index), for an index from below -len to len
GetMerkleProof(tx_index) ==
    /\ call.op = "built"
    /\ tx_index \in (0 - Len(call.merkle.transactions) - 1)
                    ..Len(call.merkle.transactions)
    /\ \E r \in {get_merkle_proof(call.merkle, tx_index)} :
          call' = [op |-> "proof", merkle |-> call.merkle, tx_index |-> tx_index,
                   raised |-> r.raised, proof |-> r.proof]
    /\ UNCHANGED <<heap, threads, status_lists, status_call>>
    /\ UNCHANGED credential_vars

\* tree.verify_spv_proof(tree.hash_data(tree.transactions[tx_index]), tx_index,
\* proof) with the proof just made
VerifySpvProof ==
    /\ call.op = "proof"
    /\ call.raised = ""
    /\ \E tx \in {PyIndex(call.merkle.transactions, call.tx_index)} :
          /\ ~tx.raised
          /\ call' = [op |-> "verified", merkle |-> call.merkle,
                      tx_index |-> call.tx_index, raised |-> "",
                      proof |-> call.proof,
                      returned |-> verify_spv_proof(call.merkle, hash_data(tx.value),
                                                    call.tx_index, call.proof)]
    /\ UNCHANGED <<heap, threads, status_lists, status_call>>
    /\ UNCHANGED credential_vars

NextMerkle ==
    \/ \E tx_index \in (0 - MaxTx - 1)..MaxTx : GetMerkleProof(tx_index)
    \/ VerifySpvProof

SpecMerkle == InitMerkle /\ [][NextMerkle]_vars

-----------------------------------------------------------------------------
(* Reading credentials and results *)

\* section i (1..3) is present as an object in the document d
SectionPresent(h, d, i) == IsDict(get_by_path(h, d, SECTION_PATHS[i]))

\* the proof object of target i (sections 1..3, the root 4), or None
ProofOf(h, d, i) ==
    Bind(TargetValue(h, d, i), LAMBDA target :
    IF IsDict(target)
    THEN Bind(DictGet(h[target.n], IF i = 4 THEN "proof" ELSE "sProof", None),
              LAMBDA proof : IF IsDict(proof) THEN proof ELSE None)
    ELSE None)

\* whether target i has a proof object, and the keys of it
ProofShape(h, d, i) ==
    Bind(ProofOf(h, d, i), LAMBDA proof :
    IF IsDict(proof) THEN [exists |-> TRUE, keys |-> Keys(h[proof.n])]
    ELSE [exists |-> FALSE, keys |-> {}])

\* target i carries a proof object with every field issue writes
FullProof(h, d, i) ==
    Bind(ProofShape(h, d, i), LAMBDA shape :
    /\ shape.exists
    /\ (IF i = 4 THEN {"type", "proofValue"}
        ELSE {"type", "sectionHash", "proofValue"}) \subseteq shape.keys)

\* every present section and the root carry such a proof object
FullTemplates(h, d) ==
    /\ FullProof(h, d, 4)
    /\ \A i \in 1..3 : SectionPresent(h, d, i) => FullProof(h, d, i)

\* the positions in rs of the results for path
At(rs, path) == {j \in DOMAIN rs : rs[j].path = path}

OkFor(rs, path) == \E j \in At(rs, path) : rs[j].ok

\* the (hash_ok, addr_ok, type_ok) of the result for path, when it has flags
FlagsAt(rs, path) ==
    {<<rs[j].hash_ok, rs[j].addr_ok, rs[j].type_ok>> :
        j \in {k \in At(rs, path) : "hash_ok" \in DOMAIN rs[k]}}

\* the role verify looks the expected address up under, for a result path
RoleOf(path) == IF path = "/" THEN "document" ELSE role_for_path(path).s

\* the results of rs that carry flags, as (section, position) pairs
Flagged(rs) ==
    {<<i, j>> \in (1..3) \X DOMAIN rs :
        rs[j].path = SECTION_PATHS[i] /\ "hash_ok" \in DOMAIN rs[j]}

\* a field of the proof object of target i, or None
ProofField(h, d, i, key) ==
    Bind(ProofOf(h, d, i), LAMBDA proof :
    IF IsDict(proof) THEN DictGet(h[proof.n], key, None) ELSE None)

\* the sections of d present as objects without a proof object
Unproved(h, d) == {i \in 1..3 : SectionPresent(h, d, i) /\ ProofOf(h, d, i) = None}

\* the configuration lacks a key issue signs with on the document d: the key
\* of the role of a section present as an object, or the document key
RequiredKeyMissing(h, d, keys) ==
    \/ "document" \notin DOMAIN keys
    \/ \E i \in 1..3 : SectionPresent(h, d, i) /\ SectionName[i] \notin DOMAIN keys

\* a proof object verify reads on the document d holds no well-formed
\* signature as proofValue
BadSignatureIn(h, d) ==
    \E i \in 1..4 :
        /\ IsDict(ProofOf(h, d, i))
        /\ DictGet(h[ProofOf(h, d, i).n], "proofValue", PyStr("")).k # "sig"

-----------------------------------------------------------------------------
(* Claims *)

\* C1 (round trip): verify on the credential issue returned, with the
\* addresses derived from the configured keys as expected signers, reports
\* ok = TRUE for every present section and for the document, under every
\* configured domain and verifying contract.  Stated for the credentials whose
\* proof templates carry every field issue writes.
C1_RoundTrip ==
    (/\ stage = "issued"
     /\ ~results.none
     /\ expected_addresses = DerivedAddresses(keys_cfg.keys)
     /\ FullTemplates(heap, doc))
    => /\ ~results.raised
       /\ OkFor(results.results, "/")
       /\ \A i \in 1..3 : SectionPresent(heap, doc, i)
                          => OkFor(results.results, SECTION_PATHS[i])

\* C1, for the configurations that leave the domain and the verifying
\* contract at the defaults, which are the ones verify assumes
C1_RoundTripDefaultDomain ==
    (/\ stage = "issued"
     /\ ~results.none
     /\ expected_addresses = DerivedAddresses(keys_cfg.keys)
     /\ FullTemplates(heap, doc)
     /\ "domain" \notin DOMAIN keys_cfg
     /\ verifying_contract = ZeroAddress)
    => /\ ~results.raised
       /\ OkFor(results.results, "/")
       /\ \A i \in 1..3 : SectionPresent(heap, doc, i)
                          => OkFor(results.results, SECTION_PATHS[i])

\* the scenario of C2: identity = {a:1}, compliance absent, custody = {b:2},
\* templates with every field, domain {T, "1", 1}, a distinct key per role,
\* expected signers derived from the keys
Scenario ==
    /\ Snapshot(heap, vc) = DocHeap(<< "full", "absent", "full" >>, "full")
    /\ keys_cfg = [domain |-> [name |-> PyStr("T"), version |-> PyStr("1"),
                               chainId |-> PyInt(1)],
                   keys |-> [identity |-> PrivKey(1), compliance |-> PrivKey(2),
                             custody |-> PrivKey(3), document |-> PrivKey(4)]]
    /\ verifying_contract = ZeroAddress
    /\ expected_addresses = DerivedAddresses(keys_cfg.keys)

\* C2 (concrete scenario): issuing the scenario's credential and verifying
\* it returns exactly three results, for identity, custody and the document,
\* all with ok = TRUE.
C2_Scenario ==
    (Scenario /\ stage = "issued" /\ ~results.none)
    => /\ ~results.raised
       /\ Len(results.results) = 3
       /\ results.results[1].path = SECTION_PATHS[1] /\ results.results[1].ok
       /\ results.results[2].path = SECTION_PATHS[3] /\ results.results[2].ok
       /\ results.results[3].path = "/" /\ results.results[3].ok

\* the case of C3: section `tampered` of an issued credential, which carries
\* its hash and signature, was changed outside its proof object, and the
\* changed credential was verified
TamperedSignedSection ==
    /\ stage = "tampered"
    /\ ~results.none
    /\ tampered \in 1..3
    /\ FullProof(heap, doc, tampered)

TamperShown ==
    /\ FlagsAt(results.results, SECTION_PATHS[tampered]) # {}
    /\ \A f \in FlagsAt(results.results, SECTION_PATHS[tampered]) : f[1] = FALSE
    /\ \A j \in 1..3 \ {tampered} :
          FlagsAt(results.results, SECTION_PATHS[j])
          = FlagsAt(results_before.results, SECTION_PATHS[j])

\* C3 (tamper detection): after a signed section's content is changed
\* without signing again, verification reports hash_ok = FALSE for that
\* section and the same hash_ok, addr_ok, type_ok as before for the other two.
C3_TamperDetection == TamperedSignedSection => (~results.raised /\ TamperShown)

\* C3, for the verifications that return: the tampered section's hash_ok is
\* FALSE and the other sections' flags are those of the verification before;
\* a verification raises after the change exactly when it raised before it
C3_TamperDetectionWhenReturned ==
    TamperedSignedSection
    => /\ results.raised = results_before.raised
       /\ ~results.raised => TamperShown

\* C4 (document tamper detection): after any content outside the proof
\* objects of an issued credential is changed without signing again, the
\* document result has ok = FALSE, with expected signers supplied or not.
C4_DocumentTamper ==
    (stage = "tampered" /\ ~results.none /\ ~results.raised
     /\ FullProof(heap, doc, 4))
    => ~OkFor(results.results, "/")

\* C4, when an expected document signer is supplied: the document result of
\* the changed credential has ok = FALSE
C4_DocumentTamperWithExpected ==
    (stage = "tampered" /\ ~results.none /\ ~results.raised
     /\ FullProof(heap, doc, 4) /\ expected_addresses # None)
    => ~OkFor(results.results, "/")

\* C5 (expected signer enforced): when expected_addresses names an address
\* for a role, a result for that role's target has ok = TRUE only if the
\* recovered address is that address, whatever the credential holds.
C5_ExpectedSignerEnforced ==
    (~results.none /\ ~results.raised /\ expected_addresses # None)
    => \A j \in DOMAIN results.results :
          (results.results[j].ok
           /\ ExpectedFor(expected_addresses, RoleOf(results.results[j].path)) # None)
          => Lower(results.results[j].recovered)
             = Lower(StrOf(ExpectedFor(expected_addresses,
                                       RoleOf(results.results[j].path))))

\* C6 (schema preservation): in the credential issue returns, every section's
\* sProof and the root proof have exactly the keys they had in the input, and
\* a proof object exists exactly where the input had one.
C6_SchemaPreserved ==
    outcome = "issue_returned"
    => \A i \in 1..4 : ProofShape(heap, doc, i) = ProofShape(arg_before, arg, i)

\* issue returned a credential one proof template of which lacked a field,
\* and wrote a signature into another
C6_Witness ==
    /\ outcome = "issue_returned"
    /\ \E i \in 1..4 : ProofShape(heap, doc, i).exists /\ ~FullProof(heap, doc, i)
    /\ \E i \in 1..4 : /\ FullProof(heap, doc, i)
                       /\ DictGet(heap[ProofOf(heap, doc, i).n], "proofValue", None).k
                          = "sig"

\* C7 (idempotent re-issuance): the proof records of issuing the issued
\* credential again carry the sectionHash and documentHash values of the
\* proof records of the first issuance.
C7_ReissueSameHashes == stage = "reissued" => proofs_meta = first_meta

\* a credential with at least one signed section was issued twice, the
\* second time with the first issuance's values in its proof objects
C7_Witness ==
    /\ stage = "reissued"
    /\ Len(proofs_meta) >= 2
    /\ \E i \in 1..3 : /\ FullProof(arg_before, arg, i)
                       /\ DictGet(arg_before[ProofOf(arg_before, arg, i).n],
                                  "proofValue", None).k = "sig"

\* C8 (verification never raises): verify returns a result list for every
\* credential that is an object, also when a proof object lacks proofValue or
\* holds an empty or malformed one.
C8_VerifyNeverRaises == ~results.none => ~results.raised

\* C9 (input not mutated): after issue returns or fails, the caller's
\* document is as it was before the call, and the issued document shares no
\* object with it.
C9_InputNotMutated ==
    outcome \in {"issue_returned", "issue_raised"}
    => /\ Snapshot(heap, arg) = arg_before
       /\ outcome = "issue_returned" => Reach(heap, doc) \cap Reach(heap, arg) = {}

\* issue returned after writing a signature into the issued copy
C9_WitnessReturned ==
    /\ outcome = "issue_returned"
    /\ \E i \in 1..4 : /\ FullProof(heap, doc, i)
                       /\ DictGet(heap[ProofOf(heap, doc, i).n], "proofValue", None).k
                          = "sig"
                       /\ DictGet(arg_before[ProofOf(arg_before, arg, i).n],
                                  "proofValue", None).k = "str"

\* C10 (verify does not mutate): after verify returns, the document it was
\* given, every proof object included, is as it was before the call.
C10_VerifyNotMutating ==
    outcome = "verify_returned" => Snapshot(heap, arg) = arg_before

\* verify returned results for a credential that carries proof objects
C10_Witness ==
    /\ outcome = "verify_returned"
    /\ \E i \in 1..3 : ProofShape(arg_before, arg, i).exists
    /\ ProofShape(arg_before, arg, 4).exists
    /\ Len(results.results) >= 2

\* C11 (missing key is fatal): issue fails exactly when the configuration lacks
\* the key of the role of a section present as an object, or the document key;
\* it then returns no issued document and no proof records.  The key of a role
\* whose section is absent is not needed.
C11_MissingKeyFatal ==
    outcome \in {"issue_returned", "issue_raised"}
    => /\ (outcome = "issue_raised")
          <=> RequiredKeyMissing(arg_before, arg, keys_cfg.keys)
       /\ outcome = "issue_raised"
          => /\ proofs_meta = << >>
             /\ doc = arg
             /\ DOMAIN heap = DOMAIN arg_before

\* issue failed for the missing document key, after it had signed a section
C11_Witness ==
    /\ outcome = "issue_raised"
    /\ "document" \notin DOMAIN keys_cfg.keys
    /\ \E i \in 1..3 : /\ SectionPresent(heap, arg, i)
                       /\ SectionName[i] \in DOMAIN keys_cfg.keys

\* issue returned although the compliance key is missing: there is no
\* compliance section to sign
C11_WitnessNotRequired ==
    /\ outcome = "issue_returned"
    /\ "compliance" \notin DOMAIN keys_cfg.keys
    /\ Len(proofs_meta) = 3

\* C12 (absence tolerance): for a section path whose value is absent or no
\* object, issue emits no proof record and verify no result, and neither raises
\* for it: issue raises only for a missing key it signs with, verify only for a
\* proof object without a well-formed signature.
C12_AbsenceTolerated ==
    /\ outcome = "issue_returned"
       => \A i \in 1..3 : ~SectionPresent(arg_before, arg, i)
                          => At(proofs_meta, SECTION_PATHS[i]) = {}
    /\ outcome = "issue_raised" => RequiredKeyMissing(arg_before, arg, keys_cfg.keys)
    /\ outcome = "verify_returned"
       => \A i \in 1..3 : ~SectionPresent(arg_before, arg, i)
                          => At(results.results, SECTION_PATHS[i]) = {}
    /\ outcome = "verify_raised" => BadSignatureIn(arg_before, arg)

\* verify returned results for an issued credential whose compliance member is
\* no object
C12_Witness ==
    /\ outcome = "verify_returned"
    /\ stage = "issued"
    /\ get_by_path(heap, doc, SECTION_PATHS[2]) = PyStr("n/a")
    /\ Len(results.results) = 3
    /\ Len(proofs_meta) = 3

\* the same with the compliance section absent
C12_WitnessAbsent ==
    /\ outcome = "verify_returned"
    /\ stage = "issued"
    /\ get_by_path(heap, doc, SECTION_PATHS[2]) = None
    /\ Len(results.results) = 3

\* C13 (cross-context replay resistance): the signature of a Section message
\* under domain D1 recovers an address other than the signer's against every
\* Document message and against the Section message of the same path and hash
\* under any other domain, and those messages differ from the signed one;
\* against the signed message itself it recovers the signer.
C13_NoCrossContextReplay ==
    call.op = "recovered"
    => /\ ~call.raised
       /\ (call.against.primaryType # "Section" \/ call.under # call.domain)
          => /\ call.recovered # call.signer
             /\ call.against # call.typed
       /\ (call.against.primaryType = "Section" /\ call.under = call.domain)
          => call.recovered = call.signer

\* a section signature was checked against the Document message of the same
\* domain whose hash is the section's hash
C13_Witness ==
    /\ call.op = "recovered"
    /\ call.against.primaryType = "Document"
    /\ call.under = call.domain
    /\ call.against.message.documentHash = call.typed.message.sectionHash
    /\ call.recovered # call.signer

\* a section signature was checked under a domain that differs in the
\* verifying contract only
C13_WitnessOtherDomain ==
    /\ call.op = "recovered"
    /\ call.against.primaryType = "Section"
    /\ call.under # call.domain
    /\ [call.under EXCEPT !.verifyingContract = ZeroAddress]
       = [call.domain EXCEPT !.verifyingContract = ZeroAddress]
    /\ call.recovered # call.signer

\* C14 (canonicalization determinism): two values that are equal up to the
\* order of object keys, at any depth, have the same canonical JSON and the
\* same keccak256_json.
C14_CanonicalDeterminism ==
    (call.op \in {"canonical", "hashed"} /\ DeepEqual(heap, PyRef(1), PyRef(4)))
    => /\ call.c1 = call.c2
       /\ call.op = "hashed" => call.h1 = call.h2

\* two equal documents whose keys were inserted in different orders at the
\* root and three objects deep were canonicalized and hashed
C14_Witness ==
    /\ call.op = "hashed"
    /\ DeepEqual(heap, PyRef(1), PyRef(4))
    /\ heap[1] # heap[4]
    /\ heap[3] # heap[6]
    /\ call.h1 = call.h2

\* values that differ have different canonical JSON and different hashes
C14_CanonicalDistinguishes ==
    (call.op = "hashed" /\ ~DeepEqual(heap, PyRef(1), PyRef(4)))
    => call.c1 # call.c2 /\ call.h1 # call.h2

\* C15 (no shared mutable state between invocations): with the steps of two
\* calls of issue and verify interleaved in any order, on the same or on
\* distinct documents, each call returns what it returns when run alone, and
\* no input document is changed at any step.
C15_CallsIndependent ==
    \A t \in DOMAIN threads :
        /\ threads[t].pc = "done" => threads[t].ret = threads[t].alone
        /\ Snapshot(heap, threads[t].input) = threads[t].before

\* an issue call and a verify call on the same credential both returned,
\* and so did two issue calls on one input
C15_Witness ==
    /\ DOMAIN threads = Threads
    /\ \A t \in Threads : threads[t].pc = "done" /\ ~threads[t].ret.raised
    /\ threads[1].op = "issue" /\ threads[2].op = "verify"
    /\ threads[1].input = threads[2].input

C15_WitnessTwoIssues ==
    /\ DOMAIN threads = Threads
    /\ \A t \in Threads : threads[t].pc = "done" /\ threads[t].op = "issue"
    /\ threads[1].input = PyRef(1) /\ threads[2].input = PyRef(1)

\* C16 (status check total over four outcomes): after any updates, the status
\* check of any list id and any index raises nothing and returns one of
\* valid, revoked, suspended, unknown; an unknown list id gives unknown.
C16_StatusCheckTotal ==
    status_call.op \in {"check", "check_status"}
    => /\ ~status_call.raised
       /\ status_call.returned \in {"valid", "revoked", "suspended", "unknown"}
       /\ status_call.list_id = "no-such-list" => status_call.returned = "unknown"

\* C16, for the indices of the list asked: the check raises nothing and
\* returns valid, revoked or suspended for a list there is, unknown otherwise
C16_StatusCheckInRange ==
    (status_call.op = "check" /\ status_call.index \in 0..(ListSize - 1))
    => /\ ~status_call.raised
       /\ IF status_call.list_id \in ListIds
          THEN status_call.returned \in Statuses
          ELSE status_call.returned = "unknown"

C17_WitnessEmptySigner ==
    /\ stage = "annotated"
    /\ ~results.none /\ ~results.raised
    /\ \E ij \in Flagged(results.results) :
          /\ ProofField(heap, doc, ij[1], "signer") = PyStr("")
          /\ results.results[ij[2]].expected_signer
             = ExpectedFor(expected_addresses, SectionName[ij[1]])
          /\ results.results[ij[2]].expected_signer # None
          /\ results.results[ij[2]].addr_ok

\* C18 (ok is the conjunction of the flags): a section result with flags has
\* ok exactly when hash_ok, addr_ok and type_ok all hold; hash_ok says the
\* hash of the section without its proof is the stored sectionHash, type_ok
\* that the proof type is "Eip712Signature2023"; without a sectionHash or a
\* type field, ok is FALSE.
C18_OkIsConjunction ==
    (~results.none /\ ~results.raised)
    => \A ij \in Flagged(results.results) :
          LET res == results.results[ij[2]]
              clean == strip_eip712(heap, doc)
              recomputed == HashOfSection(clean.heap,
                                          get_by_path(clean.heap, clean.val,
                                                      SECTION_PATHS[ij[1]]))
          IN  /\ res.ok <=> (res.hash_ok /\ res.addr_ok /\ res.type_ok)
              /\ res.hash_ok
                 <=> ProofField(heap, doc, ij[1], "sectionHash") = PyStr(recomputed)
              /\ res.type_ok
                 <=> ProofField(heap, doc, ij[1], "type") = PyStr("Eip712Signature2023")
              /\ ProofField(heap, doc, ij[1], "sectionHash") = None => ~res.ok
              /\ ProofField(heap, doc, ij[1], "type") = None => ~res.ok

\* a section with matching hash and signer and no type field was verified:
\* ok is FALSE
C18_Witness ==
    /\ ~results.none /\ ~results.raised
    /\ \E ij \in Flagged(results.results) :
          /\ results.results[ij[2]].hash_ok
          /\ results.results[ij[2]].addr_ok
          /\ ~results.results[ij[2]].type_ok
          /\ ~results.results[ij[2]].ok
          /\ results.results[ij[2]].recovered # StrangerAddress

\* C19 (section without proof object): for a section present as an object
\* without a proof object, verify emits the record {path, ok: FALSE, reason:
\* "missing proof"} and goes on with the next section.
C19_MissingSectionProof ==
    (~results.none /\ Unproved(heap, doc) # {})
    => /\ ~results.raised
       /\ \A i \in Unproved(heap, doc) :
             \E j \in DOMAIN results.results :
                results.results[j] = [path |-> SECTION_PATHS[i], ok |-> FALSE,
                                      reason |-> "missing proof"]

\* C19, as verify does it when it returns: the record of such a section is
\* {path, ok: FALSE, reason: "missing sProof"}, the only one for its path, and
\* the sections after it have their results
C19_MissingSProofWhenReturned ==
    (~results.none /\ ~results.raised)
    => \A i \in Unproved(heap, doc) :
          /\ Cardinality(At(results.results, SECTION_PATHS[i])) = 1
          /\ \A j \in At(results.results, SECTION_PATHS[i]) :
                results.results[j] = [path |-> SECTION_PATHS[i], ok |-> FALSE,
                                      reason |-> "missing sProof"]
          /\ \A k \in (i + 1)..3 :
                SectionPresent(heap, doc, k) => At(results.results, SECTION_PATHS[k]) # {}

\* C20 (root without proof object): when the document root has no proof
\* object, verify returns the results of the sections followed by the one
\* entry {path: "/", ok: FALSE, reason: "missing proof"}.
C20_MissingRootProof ==
    (~results.none /\ ProofOf(heap, doc, 4) = None)
    => /\ ~results.raised
       /\ Len(results.results)
          = Cardinality({i \in 1..3 : SectionPresent(heap, doc, i)}) + 1
       /\ results.results[Len(results.results)]
          = [path |-> "/", ok |-> FALSE, reason |-> "missing proof"]
       /\ At(results.results, "/") = {Len(results.results)}

\* C20, for the verifications that return
C20_MissingRootProofWhenReturned ==
    (~results.none /\ ~results.raised /\ ProofOf(heap, doc, 4) = None)
    => /\ Len(results.results)
          = Cardinality({i \in 1..3 : SectionPresent(heap, doc, i)}) + 1
       /\ results.results[Len(results.results)]
          = [path |-> "/", ok |-> FALSE, reason |-> "missing proof"]
       /\ At(results.results, "/") = {Len(results.results)}
       /\ \A i \in 1..3 : SectionPresent(heap, doc, i)
                          => At(results.results, SECTION_PATHS[i]) # {}

\* C21 (proof records ordered and complete): an issue that returns gives one
\* record {path, sectionHash} per section present as an object, in the order
\* identity, compliance, custody, then the one record {path: "/",
\* documentHash}; a record's sectionHash is the value written into the
\* section's sProof.sectionHash when the proof object has that field.
C21_ProofRecordsOrdered ==
    outcome = "issue_returned"
    => LET present == {i \in 1..3 : SectionPresent(heap, doc, i)}
           position(i) == Cardinality({j \in present : j <= i})
           clean == strip_existing_eip712(heap, doc)
       IN  /\ Len(proofs_meta) = Cardinality(present) + 1
           /\ proofs_meta[Len(proofs_meta)]
              = [path |-> "/", documentHash |-> keccak256_json(clean.heap, clean.val)]
           /\ \A i \in present :
                 /\ DOMAIN proofs_meta[position(i)] = {"path", "sectionHash"}
                 /\ proofs_meta[position(i)].path = SECTION_PATHS[i]
                 /\ ProofField(heap, doc, i, "sectionHash") # None
                    => ProofField(heap, doc, i, "sectionHash")
                       = PyStr(proofs_meta[position(i)].sectionHash)

\* an issue returned for a credential whose compliance section is no object
\* and whose custody proof object has the sectionHash field: two section
\* records, custody's second, then the document record
C21_Witness ==
    /\ outcome = "issue_returned"
    /\ ~SectionPresent(heap, doc, 2)
    /\ SectionPresent(heap, doc, 1)
    /\ Len(proofs_meta) = 3
    /\ proofs_meta[2].path = SECTION_PATHS[3]
    /\ ProofField(heap, doc, 3, "sectionHash") = PyStr(proofs_meta[2].sectionHash)
    /\ ProofField(heap, doc, 1, "sectionHash") = None
    /\ proofs_meta[3].path = "/"

\* C22 (verification results ordered and complete): verify returns one result
\* per section present as an object, in the order identity, compliance,
\* custody, then exactly one result for "/" as the last element; the list has
\* 1 to 4 elements.
C22_ResultsOrdered ==
    ~results.none
    => LET present == {i \in 1..3 : SectionPresent(heap, doc, i)}
           position(i) == Cardinality({j \in present : j <= i})
           rs == results.results
       IN  /\ ~results.raised
           /\ Len(rs) \in 1..4
           /\ Len(rs) = Cardinality(present) + 1
           /\ rs[Len(rs)].path = "/"
           /\ \A i \in present : rs[position(i)].path = SECTION_PATHS[i]

\* C22, for the verifications that return
C22_ResultsOrderedWhenReturned ==
    (~results.none /\ ~results.raised)
    => LET present == {i \in 1..3 : SectionPresent(heap, doc, i)}
           position(i) == Cardinality({j \in present : j <= i})
           rs == results.results
       IN  /\ Len(rs) \in 1..4
           /\ Len(rs) = Cardinality(present) + 1
           /\ rs[Len(rs)].path = "/"
           /\ \A i \in present : rs[position(i)].path = SECTION_PATHS[i]

\* the address verify recovered for the path, of the results rs
RecoveredAt(rs, path) == {rs[j].recovered : j \in {k \in At(rs, path) :
                                                    "recovered" \in DOMAIN rs[k]}}

\* the address of the key the configuration has for the role, if any
SignerOf(role) ==
    IF role \in DOMAIN keys_cfg.keys
    THEN {private_key_to_address(keys_cfg.keys[role].n)}
    ELSE {}

\* C26 (issuer and verifier agree on the signed message): verifying an issued
\* credential recovers, for every section and for the document, the address
\* of the key issue signed with, whatever domain the configuration has and
\* whatever verifying contract issue was given.
C26_IssuerVerifierAgree ==
    (stage = "issued" /\ ~results.none /\ ~results.raised)
    => /\ \A i \in 1..3 :
             RecoveredAt(results.results, SECTION_PATHS[i])
             \subseteq SignerOf(SectionName[i])
       /\ RecoveredAt(results.results, "/")
          \subseteq SignerOf("document")

\* C26, for the configurations without a domain and the zero address as
\* verifying contract: every proof that is checked yields its signer
C26_AgreeUnderDefaults ==
    (/\ stage = "issued" /\ ~results.none /\ ~results.raised
     /\ "domain" \notin DOMAIN keys_cfg
     /\ verifying_contract = ZeroAddress)
    => /\ \A i \in 1..3 :
             RecoveredAt(results.results, SECTION_PATHS[i])
             \subseteq SignerOf(SectionName[i])
       /\ RecoveredAt(results.results, "/")
          \subseteq SignerOf("document")

\* the root proofs of the two credentials carry the same field
SameRootField(key) ==
    DictGet(heap[ProofObject(heap, vc, 4).n], key, None)
    = DictGet(heap[ProofObject(heap, doc, 4).n], key, None)

\* C23 (the document hash does not depend on proofs): for two credentials
\* that differ inside their proof objects only, issue gives the same
\* documentHash, verify recovers the same document signer when the root
\* proofValue is the same, and with the same root proof the result for "/"
\* is the same.
C23_DocumentIgnoresProofs ==
    /\ call.op = "issue"
       => /\ ~call.first.raised /\ ~call.second.raised
          /\ call.first.documentHash = call.second.documentHash
    /\ (call.op = "verify" /\ SameRootField("proofValue"))
       => /\ ~call.first.raised /\ ~call.second.raised
          /\ call.first.root.recovered = call.second.root.recovered
    /\ (call.op = "verify"
        /\ heap[ProofObject(heap, vc, 4).n] = heap[ProofObject(heap, doc, 4).n])
       => call.first.root = call.second.root

\* C23, the part of issue: the same documentHash whatever the proofs hold
C23_SameDocumentHash ==
    call.op = "issue"
    => /\ ~call.first.raised /\ ~call.second.raised
       /\ call.first.documentHash = call.second.documentHash

\* C23, the part of verify when it returns for both credentials: the same
\* signer from the same root proofValue under the same embedded domain, and
\* the same result for "/" from the same root proof
C23_SameSignerWhenReturned ==
    (call.op = "verify" /\ ~call.first.raised /\ ~call.second.raised)
    => /\ (SameRootField("proofValue") /\ SameRootField("domain"))
          => call.first.root.recovered = call.second.root.recovered
       /\ heap[ProofObject(heap, vc, 4).n] = heap[ProofObject(heap, doc, 4).n]
          => call.first.root = call.second.root

\* the value found after the first k of the segments parts, from d; None once
\* a segment is missing or the value at hand is no object
RECURSIVE Located(_, _, _, _)
Located(h, d, parts, k) ==
    IF k = 0 THEN d
    ELSE LET before == Located(h, d, parts, k - 1)
         IN  IF IsDict(before) /\ Has(h[before.n], parts[k])
             THEN DictGet(h[before.n], parts[k], None)
             ELSE None

\* the segments of a path: the maximal runs of characters other than "/"
Runs(chars) ==
    LET starts == {i \in 1..Len(chars) :
                      chars[i] # "/" /\ (i = 1 \/ chars[i - 1] = "/")}
    IN  Cardinality(starts)

\* C24 (path resolution is total): _get_by_path returns the value located by
\* the non-empty segments of the path, None as soon as a segment is missing
\* or the value at hand is no object; a path of slashes only resolves to the
\* document itself.
C24_PathResolutionTotal ==
    call.op = "resolved"
    => LET parts == PathSegments(call.path)
       IN  /\ Len(parts) = Runs(call.path)
           /\ call.returned = Located(heap, call.doc, parts, Len(parts))
           /\ (\A i \in 1..Len(call.path) : call.path[i] = "/")
              => call.returned = call.doc
           /\ (~IsDict(call.doc) /\ \E i \in 1..Len(call.path) : call.path[i] # "/")
              => call.returned = None
           /\ \A k \in 1..Len(parts) :
                 Located(heap, call.doc, parts, k) = None => call.returned = None

\* "a//a" resolved in the object at 1: the empty segment is discarded and the
\* object under a, a is returned
C24_Witness ==
    /\ call.op = "resolved"
    /\ call.doc = PyRef(1)
    /\ call.path = << "a", "/", "/", "a" >>
    /\ call.returned = PyRef(3)

\* a path through a value that is no object was resolved to None, and a path
\* of slashes only to a value that is no object
C24_WitnessAbsent ==
    /\ call.op = "resolved"
    /\ \/ /\ call.doc = PyRef(1)
          /\ call.path = << "b", "/", "a" >>
          /\ call.returned = None
       \/ /\ call.doc = PyInt(1)
          /\ call.path = << "/", "/" >>
          /\ call.returned = PyInt(1)

\* the domain selected for the proof object of target i: the embedded
\* sub-fields, the scheme defaults for the missing ones, all defaults when
\* no domain is embedded
SelectedDomain(i) ==
    LET embedded == ProofField(heap, doc, i, "domain")
        sub(key, default) == IF IsDict(embedded)
                             THEN DictGet(heap[embedded.n], key, default)
                             ELSE default
    IN  Eip712Domain(StrOf(sub("name", PyStr("RWA-VC"))),
                     StrOf(sub("version", PyStr("1"))),
                     IntOf(sub("chainId", PyInt(1))).n,
                     StrOf(sub("verifyingContract",
                               PyStr("0x0000000000000000000000000000000000000000"))))

\* the domain issue signed under
SigningDomain == IssueDomain(keys_cfg, verifying_contract).domain

\* C25 (verification domain selection): verify rebuilds each message with the
\* domain embedded in the proof object, the scheme defaults for its missing
\* sub-fields, all defaults when none is embedded: the signer is recovered
\* exactly when that domain is the one issue signed under.
C25_DomainSelection ==
    (~results.none /\ ~results.raised /\ stage \in {"issued", "annotated"})
    => /\ \A ij \in Flagged(results.results) :
             results.results[ij[2]].recovered
             = IF SelectedDomain(ij[1]) = SigningDomain
               THEN private_key_to_address(keys_cfg.keys[SectionName[ij[1]]].n)
               ELSE StrangerAddress
       /\ \A j \in At(results.results, "/") :
             results.results[j].recovered
             = IF SelectedDomain(4) = SigningDomain
               THEN private_key_to_address(keys_cfg.keys["document"].n)
               ELSE StrangerAddress

\* a credential signed under {T, "1", 1, zero address} whose proofs embed
\* {name: "T"} only was verified: the signers are recovered
C25_Witness ==
    /\ stage = "annotated"
    /\ ~results.none /\ ~results.raised
    /\ SigningDomain = Eip712Domain("T", "1", 1, ZeroAddress)
    /\ \E d \in {ProofField(heap, doc, 4, "domain")} :
          IsDict(d) /\ heap[d.n] = << Item("name", PyStr("T")) >>
    /\ Flagged(results.results) # {}
    /\ \A ij \in Flagged(results.results) :
          results.results[ij[2]].recovered
          = private_key_to_address(keys_cfg.keys[SectionName[ij[1]]].n)
    /\ \A j \in At(results.results, "/") :
          results.results[j].recovered = private_key_to_address(4)

\* a credential signed under the defaults, with no domain embedded, and one
\* signed under chainId 5 whose proofs embed chainId "5", were verified
C25_WitnessDefaultsAndText ==
    /\ ~results.none /\ ~results.raised
    /\ \A j \in At(results.results, "/") :
          results.results[j].recovered = private_key_to_address(4)
    /\ \/ /\ stage = "issued"
          /\ SigningDomain = DefaultDomain
       \/ /\ stage = "annotated"
          /\ \E d \in {ProofField(heap, doc, 4, "domain")} :
                IsDict(d) /\ DictGet(heap[d.n], "chainId", None) = PyStr("5")

\* C27 (reading metrics does not change statuses): get_status(index) returns
\* after get_metrics() what it returned before, for every index of the list.
C27_MetricsReadOnly ==
    status_call.op = "get_metrics"
    => \A index \in 0..(ListSize - 1) :
          get_status(status_lists[TheList], index)
          = get_status(status_call.before, index)

\* C27, as the code has it: after get_metrics() every index below 100 is valid
C27_MetricsResetStatuses ==
    (status_call.op = "get_metrics" /\ ~status_call.raised)
    => \A index \in 0..(Min(MetricsEntries, ListSize) - 1) :
          get_status(status_lists[TheList], index).returned = "valid"

\* the status of the last entry of updates for the index, "" when the batch
\* has no entry for it
RECURSIVE LastFor(_, _, _)
LastFor(updates, index, i) ==
    IF i = 0 THEN ""
    ELSE IF updates[i].index = index THEN updates[i].status
         ELSE LastFor(updates, index, i - 1)

\* C29 (out-of-range indices never change a status list): update_status and
\* get_status with index < 0 or index >= size raise and leave the bits, the
\* detailed entries and the updated timestamp as they were;
\* batch_update_status skips the out-of-range entries and applies the others
\* in order, so the last entry for an index of the list decides its status.
C29_OutOfRangeHarmless ==
    LET list == status_lists[TheList]
        before == status_call.before
    IN  /\ status_call.op \in {"update_status", "get_status"}
           => /\ status_call.raised <=> status_call.index \notin 0..(ListSize - 1)
              /\ status_call.raised => list = before
        /\ status_call.op = "batch_update_status"
           => /\ ~status_call.raised
              /\ \A index \in 0..(ListSize - 1) :
                    LET last == LastFor(status_call.updates, index,
                                        Len(status_call.updates))
                    IN  IF last = ""
                        THEN get_status(list, index) = get_status(before, index)
                        ELSE /\ get_status(list, index).returned = last
                             /\ list.status_bits[index]
                                = IF last = "revoked" THEN 1 ELSE 0
              /\ DOMAIN list.status_bits = DOMAIN before.status_bits
              /\ DOMAIN list.detailed_status \subseteq 0..(ListSize - 1)

\* a batch whose first entry is out of range and whose second revokes index
\* 0 was applied to a list where 0 was not revoked
C29_Witness ==
    /\ status_call.op = "batch_update_status"
    /\ Len(status_call.updates) = 2
    /\ status_call.updates[1].index = ListSize
    /\ status_call.updates[2] = [index |-> 0, status |-> "revoked"]
    /\ get_status(status_call.before, 0).returned = "valid"
    /\ get_status(status_lists[TheList], 0).returned = "revoked"

\* update_status raised on an index below the list, after an update that was
\* applied
C29_WitnessRaised ==
    /\ status_call.op = "update_status"
    /\ status_call.index < 0
    /\ status_call.raised
    /\ status_call.before.updated > 0
    /\ status_lists[TheList] = status_call.before

\* C28 (status bit and detailed status stay consistent): whatever the
\* interleaving of the threads' update_status, batch_update_status and
\* get_status calls, an index with a detailed entry has its bit at 1 exactly
\* when the entry is revoked or suspended, get_status returns the status of
\* the update last applied to the index, and a reader never has the bit of
\* one update with the detailed entry of another.
C28_BitMatchesDetail ==
    LET list == status_lists[TheList]
        set(status) == status \in {"revoked", "suspended"}
        writing(i) == \E t \in ListThreads :
                         /\ threads[t].op \in {"update_status", "batch_update_status"}
                         /\ threads[t].pc = "detail"
                         /\ threads[t].index = i
    IN  /\ \A i \in DOMAIN list.detailed_status :
              ~writing(i)
              => /\ list.status_bits[i] = 1 <=> set(list.detailed_status[i].status)
                 /\ get_status(list, i).returned = call.last[i]
        /\ \A i \in 0..(ListSize - 1) :
              (i \notin DOMAIN list.detailed_status /\ ~writing(i))
              => list.status_bits[i] = 0 /\ call.last[i] = ""
        /\ \A t \in ListThreads :
              (threads[t].op = "get_status" /\ threads[t].pc \in {"release", "done"}
               /\ ~threads[t].raised)
              => /\ threads[t].bit_value = 1 <=> set(threads[t].returned)
                 /\ threads[t].expected # "" => threads[t].returned = threads[t].expected
                 /\ threads[t].had_entry <=> threads[t].expected # ""
        /\ \A t \in ListThreads :
              threads[t].pc \in {"check", "bit", "detail", "stamp", "release"}
              => list.lock = t

\* a reader got "suspended" with the bit at 1 for an index that one thread
\* had revoked and another then suspended
C28_Witness ==
    /\ \E t \in ListThreads :
          /\ threads[t].op = "get_status" /\ threads[t].pc = "done"
          /\ threads[t].returned = "suspended"
          /\ threads[t].bit_value = 1
          /\ threads[t].had_entry
    /\ status_lists[TheList].updated = 2
    /\ \E i \in 0..(ListSize - 1) : /\ call.last[i] = "suspended"
                                     /\ i \in DOMAIN status_lists[TheList].detailed_status

\* a thread waits for the lock another holds between its two writes
C28_WitnessWaiting ==
    \E t, u \in ListThreads :
       /\ threads[t].pc = "start" /\ threads[t].op = "get_status"
       /\ threads[u].pc = "detail" /\ threads[u].op = "update_status"
       /\ threads[t].index = threads[u].index
       /\ status_lists[TheList].lock = u

\* C30 (Merkle proof round trip): for an index of a transaction the proof of
\* get_merkle_proof has get_tree_height() - 1 elements and verify_spv_proof
\* accepts it for the transaction's hash; for every other index
\* get_merkle_proof raises ValueError.
C30_MerkleRoundTrip ==
    call.op \in {"proof", "verified"}
    => IF call.tx_index \in 0..(Len(call.merkle.transactions) - 1)
       THEN /\ call.raised = ""
            /\ Len(call.proof) = get_tree_height(call.merkle) - 1
            /\ call.op = "verified" => call.returned
       ELSE call.raised = "ValueError"

\* C30, for the indices from 0 on: the round trip for the indices of the
\* transactions, ValueError for those from the number of transactions on
C30_RoundTripFromZero ==
    (call.op \in {"proof", "verified"} /\ call.tx_index >= 0)
    => IF call.tx_index < Len(call.merkle.transactions)
       THEN /\ call.raised = ""
            /\ Len(call.proof) = get_tree_height(call.merkle) - 1
            /\ call.op = "verified" => call.returned
       ELSE call.raised = "ValueError"

\* C30, below zero: never a ValueError; a list of siblings is returned, or
\* an IndexError raised
C30_BelowZero ==
    (call.op \in {"proof", "verified"} /\ call.tx_index < 0)
    => call.raised \in {"", "IndexError"}

====
